---- MODULE Spec2Model ----
(***************************************************************************)
(* Model of the polling-driven job pipeline of complete_automation.py:     *)
(* FixedSheetsManager (the work queue), AutoMonitoringManager (the         *)
(* monitoring loop and its worker threads), YouTubeUploader (the publish   *)
(* sink and its confirmation gate) and                                     *)
(* CompleteAutomationSystem.run_full_automation_with_notice (the           *)
(* pipeline).                                                              *)
(*                                                                         *)
(* Text is modelled as a sequence of characters, each character a          *)
(* one-element token: a Latin letter is itself ("d"), a Hangul syllable is *)
(* its romanisation in brackets ("[wan]"), so that lower(), strip() and    *)
(* the substring test `keyword in status` are computed, not assumed.       *)
(***************************************************************************)
EXTENDS Integers, Sequences, FiniteSets, TLC

(***************************************************************************)
(* Bounds of the model.                                                    *)
(***************************************************************************)
\* longest sheet (data rows) the queue specification draws
MaxRows == 2
\* worker threads one AutoMonitoringManager may ever create
MaxThreads == 2
\* the interval of one monitoring cycle, in one-second increments (300 in the
\* source, line 891)
check_interval == 2

(***************************************************************************)
(* Text.                                                                   *)
(***************************************************************************)
EmptyStr == <<>>

\* str.lower() on one character: Latin capitals fold, everything else stays
LowerChar(c) ==
    CASE c = "D" -> "d" [] c = "E" -> "e" [] c = "G" -> "g" [] c = "I" -> "i"
      [] c = "N" -> "n" [] c = "O" -> "o" [] c = "P" -> "p" [] c = "S" -> "s"
      [] c = "T" -> "t" [] c = "U" -> "u" [] c = "W" -> "w" [] c = "A" -> "a"
      [] c = "B" -> "b" [] c = "L" -> "l" [] c = "K" -> "k" [] c = "R" -> "r"
      [] OTHER -> c

\* str.lower(); the text is worked out once, then folded
Lower(s) == CHOOSE r \in { [i \in 1..Len(v) |-> LowerChar(v[i])] : v \in {s} } : TRUE

IsSpace(c) == c \in {" ", "\t", "\n"}

\* what lies between the first and the last character that is not white space
Stripped(s) ==
    LET kept == {i \in 1..Len(s) : ~IsSpace(s[i])}
    IN  IF kept = {} THEN <<>>
        ELSE SubSeq(s, CHOOSE i \in kept : \A j \in kept : i <= j,
                       CHOOSE i \in kept : \A j \in kept : j <= i)

\* str.strip(); the text is worked out once, then stripped
Strip(s) == CHOOSE r \in { Stripped(v) : v \in {s} } : TRUE

\* Python's `k in s` on strings: k occurs as a contiguous substring of s
\* (the empty string occurs in every string)
Contains(s, k) ==
    \E i \in 0..(Len(s) - Len(k)) : SubSeq(s, i + 1, i + Len(k)) = k

\* a cell value is truthy iff it is not the empty string
Truthy(v) == v # EmptyStr

(***************************************************************************)
(* The vocabulary of FixedSheetsManager.                                   *)
(***************************************************************************)
K_status == <<"s","t","a","t","u","s">>
K_Status == <<"S","t","a","t","u","s">>
K_sangtae == <<"[sang]","[tae]">>
K_cheorisangtae == <<"[cheo]","[ri]","[sang]","[tae]">>
K_jinhaengsangtae == <<"[jin]","[haeng]","[sang]","[tae]">>
K_address == <<"a","d","d","r","e","s","s">>
K_Address == <<"A","d","d","r","e","s","s">>
K_juso == <<"[ju]","[so]">>
K_budongsanjuso == <<"[bu]","[dong]","[san]","[ju]","[so]">>
K_maemuljuso == <<"[mae]","[mul]","[ju]","[so]">>

K_daegi == <<"[dae]","[gi]">>
K_daegijung == <<"[dae]","[gi]","[jung]">>
K_pending == <<"p","e","n","d","i","n","g">>
K_cheorijeon == <<"[cheo]","[ri]","[jeon]">>
K_singyu == <<"[sin]","[gyu]">>
K_new == <<"n","e","w">>

\* the three statuses the program writes
ST_processing == <<"[cheo]","[ri]","[jung]">>
ST_done == <<"[wan]","[ryo]">>
ST_error == <<"[o]","[ryu]">>
K_done == <<"d","o","n","e">>

status_fields == <<K_status, K_sangtae, K_Status, K_cheorisangtae, K_jinhaengsangtae>>
address_fields == <<K_address, K_juso, K_Address, K_budongsanjuso, K_maemuljuso>>
waiting_keywords == <<K_daegi, K_pending, K_cheorijeon, K_singyu, K_new, EmptyStr>>

(***************************************************************************)
(* A record is what get_all_records / DictReader yields for one data row:  *)
(* a function from the header names of the sheet to the row's cells.       *)
(***************************************************************************)
\* `field in record`
HasField(headers, field) == \E i \in 1..Len(headers) : headers[i] = field

\* record[field]; a repeated header keeps its last cell, as a dict does
Cell(headers, row, field) ==
    LET js == {j \in 1..Len(headers) : headers[j] = field}
    IN  row[CHOOSE j \in js : \A k \in js : k <= j]

\* `for field in fields: if field in record and record[field]: ... break`:
\* the cell of the first listed field that is present and truthy, else ""
RECURSIVE FirstField(_, _, _)
FirstField(fields, headers, row) ==
    IF fields = <<>> THEN EmptyStr
    ELSE IF HasField(headers, Head(fields)) /\ Truthy(Cell(headers, row, Head(fields)))
         THEN Cell(headers, row, Head(fields))
         ELSE FirstField(Tail(fields), headers, row)

\* lines 1492-1496: status = str(record[field]).lower().strip()
RowStatus(headers, row) == Strip(Lower(FirstField(status_fields, headers, row)))

\* lines 1498-1502: address = str(record[field]).strip()
RowAddress(headers, row) == Strip(FirstField(address_fields, headers, row))

\* a plausible slip: the pending test reduced to `status == ''`
IsPendingEmptyOnly(status) == status = EmptyStr

\* lines 1522-1523:
\* is_pending = any(keyword in status for keyword in waiting_keywords) or status == ''
IsPendingScan(status) ==
    \/ \E i \in 1..Len(waiting_keywords) : Contains(status, waiting_keywords[i])
    \/ status = EmptyStr

\* the test on the status texts of the sheets of the specifications, worked
\* out once
KnownStatuses ==
    {EmptyStr, K_daegi, K_daegijung, K_pending, K_cheorijeon, K_singyu, K_new,
     ST_processing, ST_done, ST_error, K_done}
PendingTable == [st \in KnownStatuses |-> IsPendingScan(st)]

IsPending(status) ==
    IF status \in KnownStatuses THEN PendingTable[status] ELSE IsPendingScan(status)

\* lines 1476-1543: the pending items of the records read, in row order;
\* an item is <<row_id, address>> with row_id = idx + 2
RECURSIVE FilterPendingFrom(_, _, _)
FilterPendingFrom(headers, rows, idx) ==
    IF idx >= Len(rows) THEN <<>>
    ELSE LET row == rows[idx + 1]
             status == RowStatus(headers, row)
             address == RowAddress(headers, row)
             rest == FilterPendingFrom(headers, rows, idx + 1)
         IN  IF IsPending(status) /\ address # EmptyStr
             THEN <<[row_id |-> idx + 2, address |-> address]>> \o rest
             ELSE rest

FilterPending(headers, rows) == FilterPendingFrom(headers, rows, 0)

(***************************************************************************)
(* State.                                                                  *)
(***************************************************************************)
VARIABLES
    sheet,             \* the spreadsheet behind the queue: [headers, rows]
    flaky,             \* environment: whether backend calls (cell writes, voice, video) may fail
    conn,              \* FixedSheetsManager: data_source, is_connected, sheet handle, last_data
    q_out,             \* the last get_property_queue call of the queue specification
    is_running,        \* AutoMonitoringManager.is_running
    SHUTDOWN_FLAG,     \* the process-wide shutdown flag
    processed_items,   \* AutoMonitoringManager.processed_items
    nthreads,          \* worker threads created so far
    pc,                \* position of every thread
    pending_items,     \* per worker: pending items still to be filtered
    new_items,         \* per worker: new items still to be processed
    item,              \* per thread: the item / pipeline input in hand
    result,            \* per thread: the ContentResult of its pipeline run
    auto_upload_mode,  \* YouTubeUploader.auto_upload_mode
    runs,              \* history: pipeline invocations made by monitoring, per key
    wlog,              \* history: per thread, the update_status calls for the item in hand
    plog,              \* history: per thread, the events of its pipeline run
    cycle,             \* history: per worker, what its current and last poll cycle did
    progress_tracker,  \* CompleteAutomationSystem.progress_tracker
    slept,             \* per worker: one-second increments slept in the current interval
    u_out,             \* the last update_status call of the status specification
    sheet_url,         \* AutoMonitoringManager.sheet_url
    s_out,             \* the last start_monitoring call of the manager specification
    media,             \* history: per thread, what the voice and video stages of its run left
    p_out,             \* the tracker of the progress specification and its last report
    pipe,              \* per thread: its run in the report specification
    progress_callback, \* CompleteAutomationSystem.progress_callback
    c_out              \* the negotiation of the last call of the connection specification

vars == <<sheet, flaky, conn, q_out, is_running, SHUTDOWN_FLAG, processed_items,
          nthreads, pc, pending_items, new_items, item, result, auto_upload_mode,
          runs, wlog, plog, cycle,
          progress_tracker, slept, u_out, sheet_url, s_out, media, p_out,
          pipe, progress_callback, c_out>>

(***************************************************************************)
(* FixedSheetsManager.                                                     *)
(***************************************************************************)
NoSheet == [headers |-> <<>>, rows |-> <<>>]

\* FixedSheetsManager.__init__
NewConn == [data_source |-> "none", is_connected |-> FALSE, has_sheet |-> FALSE,
            last_data |-> NoSheet]

\* connection_methods, in the order they are tried
ConnectionMethods == <<"service_account", "public_csv", "api_v4", "oauth">>

\* what one connection method leaves behind when it succeeds
MethodSuccess(c, sh, m) ==
    CASE m = "service_account" ->
            [c EXCEPT !.data_source = "service_account", !.has_sheet = TRUE]
      [] m = "public_csv" ->
            [c EXCEPT !.data_source = "public_csv", !.last_data = sh]
      [] m = "api_v4" ->
            [c EXCEPT !.data_source = "api_v4", !.last_data = sh]
      [] OTHER ->
            [c EXCEPT !.data_source = "oauth", !.has_sheet = TRUE]

\* whether method m returns True where the environment lets `works` succeed;
\* the API-key method also needs at least one data row (`len(values) > 1`)
MethodReturnsTrue(sh, works, m) ==
    /\ m \in works
    /\ (m = "api_v4") => Len(sh.rows) >= 1

\* what one call of a connection method does: it returns True, returns False,
\* or raises
MethodOutcomes == {"true", "false", "raises"}

\* the methods that return True
Working(outcome) == {m \in DOMAIN outcome : outcome[m] = "true"}

\* a variant of the loop without the handler of lines 1131-1133: a method
\* that raises ends the loop
RECURSIVE try_methods_unhandled(_, _, _, _)
try_methods_unhandled(c, sh, outcome, i) ==
    IF i > Len(ConnectionMethods)
    THEN [conn |-> [c EXCEPT !.data_source = "mock", !.is_connected = FALSE],
          tried |-> <<>>]
    ELSE LET m == ConnectionMethods[i]
         IN  IF MethodReturnsTrue(sh, Working(outcome), m)
             THEN [conn |-> [MethodSuccess(c, sh, m) EXCEPT !.is_connected = TRUE],
                   tried |-> <<m>>]
             ELSE IF outcome[m] = "raises"
             THEN [conn |-> c, tried |-> <<m>>]
             ELSE LET r == try_methods_unhandled(c, sh, outcome, i + 1)
                  IN  [r EXCEPT !.tried = <<m>> \o @]

\* lines 1124-1138: the loop over connection_methods from method i on.  The
\* first method that returns True ends it; a method that returns False or
\* raises is followed by the next; after the last the manager is in mock
\* mode.  tried are the methods called
RECURSIVE try_methods(_, _, _, _)
try_methods(c, sh, outcome, i) ==
    IF i > Len(ConnectionMethods)
    THEN [conn |-> [c EXCEPT !.data_source = "mock", !.is_connected = FALSE],
          tried |-> <<>>]
    ELSE LET m == ConnectionMethods[i]
         IN  IF MethodReturnsTrue(sh, Working(outcome), m)
             THEN [conn |-> [MethodSuccess(c, sh, m) EXCEPT !.is_connected = TRUE],
                   tried |-> <<m>>]
             ELSE LET r == try_methods(c, sh, outcome, i + 1)
                  IN  [r EXCEPT !.tried = <<m>> \o @]

\* setup_sheets_connection (lines 1106-1138) with the methods it called:
\* without the library the manager falls to mock mode at once
setup_with_trace(c, sh, gspread, outcome) ==
    IF ~gspread THEN [conn |-> [c EXCEPT !.data_source = "mock"], tried |-> <<>>]
    ELSE try_methods(c, sh, outcome, 1)

\* the outcomes in an environment where exactly the methods of `works` succeed
OutcomeOf(works) ==
    [m \in {"service_account", "public_csv", "api_v4", "oauth"} |->
        IF m \in works THEN "true" ELSE "false"]

\* setup_sheets_connection: without the library, or when every method fails,
\* the manager falls to mock mode; otherwise the first method that succeeds wins
setup_sheets_connection(c, sh, gspread, works) ==
    setup_with_trace(c, sh, gspread, OutcomeOf(works)).conn

\* a variant that negotiates again whenever the manager is not connected
negotiate_when_unconnected(c, sh, gspread, outcome) ==
    IF ~c.is_connected
    THEN [setup_with_trace(c, sh, gspread, outcome) EXCEPT !.tried = <<"setup">> \o @]
    ELSE [conn |-> c, tried |-> <<>>]

\* lines 1457-1458 of get_property_queue: the connection is negotiated only
\* while data_source is "none"; tried then starts with the setup call itself
negotiate(c, sh, gspread, outcome) ==
    IF c.data_source = "none"
    THEN [setup_with_trace(c, sh, gspread, outcome) EXCEPT !.tried = <<"setup">> \o @]
    ELSE [conn |-> c, tried |-> <<>>]

\* what the environment decides when a call has to connect: whether the
\* spreadsheet library is installed and which connection methods would succeed
WorksChoices == {{}, {"service_account", "oauth"}, {"public_csv", "api_v4"}}
ConnectEnvs(c) ==
    IF c.data_source = "none"
    THEN [gspread : BOOLEAN, works : WorksChoices]
    ELSE {[gspread |-> TRUE, works |-> {}]}

\* whether the read of the live sheet can fail: only a live sheet is read
ReadEnvs(c) ==
    IF c.data_source \in {"service_account", "oauth"} /\ c.has_sheet THEN BOOLEAN ELSE {TRUE}

\* lines 1457-1458: connect on the first call only
ConnAfterGet(c, sh, gspread, works) ==
    IF c.data_source = "none" THEN setup_sheets_connection(c, sh, gspread, works) ELSE c

\* lines 1460-1474: the records the call reads
RecordsRead(c, sh, readOk) ==
    IF c.data_source \in {"service_account", "oauth"} /\ c.has_sheet
    THEN (IF readOk THEN sh ELSE NoSheet)
    ELSE IF c.data_source \in {"public_csv", "api_v4"} THEN c.last_data
    ELSE NoSheet

\* get_property_queue: the pending items it returns
get_property_queue(c, sh, readOk) ==
    LET recs == RecordsRead(c, sh, readOk)
    IN  FilterPending(recs.headers, recs.rows)

\* no call of the connection specification observed yet
NoNegotiation == [calls |-> 0, turn |-> 0, setups |-> 0, tried |-> <<>>, gspread |-> TRUE,
                  outcome |-> OutcomeOf({}), readOk |-> TRUE]

\* no get_property_queue call observed yet
NoQueueCall ==
    [called |-> FALSE, records |-> NoSheet, pending |-> <<>>, bad |-> {}, raised |-> FALSE]

\* _get_mock_data (lines 1549-1570): the built-in sample set
T_mock_address_1 == <<"[seoulsi gangnamgu daechidong apateu]">>
T_mock_address_2 == <<"[seoulsi seochogu banpodong opiseutel]">>
MockData ==
    <<[row_id |-> 1, address |-> T_mock_address_1],
      [row_id |-> 2, address |-> T_mock_address_2]>>

\* a variant in which the failure of a row is not caught by the row's own
\* handler: it ends the loop and the outer handler answers with the samples
RECURSIVE FilterPendingAborting(_, _, _, _)
FilterPendingAborting(headers, rows, idx, bad) ==
    IF idx >= Len(rows) THEN <<>>
    ELSE IF idx \in bad THEN MockData
    ELSE LET row == rows[idx + 1]
             status == RowStatus(headers, row)
             address == RowAddress(headers, row)
             rest == FilterPendingAborting(headers, rows, idx + 1, bad)
         IN  IF IsPending(status) /\ address # EmptyStr
             THEN <<[row_id |-> idx + 2, address |-> address]>> \o rest
             ELSE rest

\* lines 1476-1543 with the row handler of lines 1538-1540: the rows whose
\* index is in bad raise inside the row's try block and are skipped
RECURSIVE FilterPendingSkipping(_, _, _, _)
FilterPendingSkipping(headers, rows, idx, bad) ==
    IF idx >= Len(rows) THEN <<>>
    ELSE IF idx \in bad THEN FilterPendingSkipping(headers, rows, idx + 1, bad)
    ELSE LET row == rows[idx + 1]
             status == RowStatus(headers, row)
             address == RowAddress(headers, row)
             rest == FilterPendingSkipping(headers, rows, idx + 1, bad)
         IN  IF IsPending(status) /\ address # EmptyStr
             THEN <<[row_id |-> idx + 2, address |-> address]>> \o rest
             ELSE rest

status_headers == <<K_status, K_sangtae, K_Status, K_cheorisangtae>>
K_url == <<"u","r","l">>
K_link == <<"l","i","n","k">>
K_youtube == <<"y","o","u","t","u","b","e">>
K_YouTube == <<"Y","o","u","T","u","b","e">>
K_video_url == <<"v","i","d","e","o","_","u","r","l">>
K_ringkeu == <<"[ring]","[keu]">>
K_dongyeongsangringkeu == <<"[dong]","[yeong]","[sang]","[ring]","[keu]">>
url_headers == <<K_url, K_ringkeu, K_link, K_youtube, K_YouTube, K_video_url, K_dongyeongsangringkeu>>

\* lines 1593-1602: the last header that contains one of the keywords, 0 if none
HeaderMatches(header, keywords) ==
    \E k \in 1..Len(keywords) : Contains(Strip(Lower(header)), Lower(keywords[k]))

\* the scan keeps the last column whose header matches: the greatest index
RECURSIVE LastMatch(_, _, _)
LastMatch(headers, keywords, i) ==
    IF i = 0 THEN 0
    ELSE IF HeaderMatches(headers[i], keywords) THEN i
    ELSE LastMatch(headers, keywords, i - 1)

\* the header rows of the sheets of the specifications
H_addr_status == <<K_address, K_status>>
H_juso_sangtae == <<K_juso, K_sangtae>>
H_addr_only == <<K_address>>
H_addr_status_url == <<K_address, K_status, K_url>>
SheetHeaders == {H_addr_status, H_juso_sangtae, H_addr_only, H_addr_status_url}

\* the scan over these header rows, worked out once for each keyword list
StatusColumn == [h \in SheetHeaders |-> LastMatch(h, status_headers, Len(h))]
UrlColumn == [h \in SheetHeaders |-> LastMatch(h, url_headers, Len(h))]

MatchingCol(headers, keywords) ==
    IF headers \in SheetHeaders /\ keywords = status_headers THEN StatusColumn[headers]
    ELSE IF headers \in SheetHeaders /\ keywords = url_headers THEN UrlColumn[headers]
    ELSE LastMatch(headers, keywords, Len(headers))

\* update_cell(row_id, col, value) on the data rows (sheet row 1 is the header)
UpdateCell(sh, row_id, col, value) ==
    IF row_id - 1 \in 1..Len(sh.rows) /\ col \in 1..Len(sh.headers)
    THEN [sh EXCEPT !.rows[row_id - 1][col] = value]
    ELSE sh

\* the text None, which is falsy like the empty string
NoneText == <<"<None>">>
TruthyText(v) == v # EmptyStr /\ v # NoneText

\* update_status (lines 1572-1626): the sheet after the call. fail names the
\* cell write that raises: "none", "status" (nothing is written) or "url"
update_status(c, sh, row_id, status, video_url, fail) ==
    IF ~c.is_connected THEN sh
    ELSE IF c.data_source \in {"service_account", "oauth"} /\ c.has_sheet
    THEN LET status_col == MatchingCol(sh.headers, status_headers)
             url_col == MatchingCol(sh.headers, url_headers)
             s1 == IF status_col # 0 THEN UpdateCell(sh, row_id, status_col, status) ELSE sh
             s2 == IF url_col # 0 /\ TruthyText(video_url)
                   THEN UpdateCell(s1, row_id, url_col, video_url) ELSE s1
         IN  IF fail = "status" /\ status_col # 0 THEN sh
             ELSE IF fail = "url" THEN s1
             ELSE s2
    ELSE sh

\* whether update_status reaches the cell writes
Writable(c) == c.is_connected /\ c.data_source \in {"service_account", "oauth"} /\ c.has_sheet

\* the cell writes of one update_status call that can raise: only a write
\* that is attempted can fail, and only on a backend that rejects writes
WriteFailures(c, sh, video_url) ==
    {"none"}
    \cup (IF flaky /\ Writable(c) /\ MatchingCol(sh.headers, status_headers) # 0
          THEN {"status"} ELSE {})
    \cup (IF flaky /\ Writable(c) /\ MatchingCol(sh.headers, url_headers) # 0 /\ TruthyText(video_url)
          THEN {"url"} ELSE {})

\* no update_status call observed yet
NoUpdate == [called |-> FALSE, raised |-> FALSE, branch |-> "", noop |-> TRUE]

\* the branch of update_status a call takes
UpdateBranch(c, sh, fail) ==
    IF ~c.is_connected THEN "not_connected"
    ELSE IF ~Writable(c) THEN "read_only"
    ELSE IF fail # "none" THEN "write_failed"
    ELSE IF MatchingCol(sh.headers, status_headers) = 0 THEN "no_status_column"
    ELSE "written"

\* a variant without the handler around the cell writes
update_status_raises_on_write(c, sh, fail) == UpdateBranch(c, sh, fail) = "write_failed"

\* whether an exception leaves update_status: a failing cell write is caught
\* by the handler of lines 1617-1619, and every statement of the function is
\* inside the outer try block of lines 1574-1624, so none does
update_status_raises(c, sh, fail) == FALSE

(***************************************************************************)
(* Threads: 0 is the caller's thread (console, manual pipeline runs), the  *)
(* others are the worker threads start_monitoring creates.                 *)
(***************************************************************************)
Caller == 0
Workers == 1..MaxThreads
Threads == 0..MaxThreads

\* an item of the queue, and the arguments of a pipeline run: row_id 0
\* stands for a run without sheets_row_id (None)
NoItem == [row_id |-> 0, address |-> EmptyStr]

\* str(n) for the row numbers of the model
DecimalText(n) ==
    LET d(k) == CASE k = 0 -> "0" [] k = 1 -> "1" [] k = 2 -> "2" [] k = 3 -> "3"
                  [] k = 4 -> "4" [] k = 5 -> "5" [] k = 6 -> "6" [] k = 7 -> "7"
                  [] k = 8 -> "8" [] OTHER -> "9"
    IN  IF n < 10 THEN <<d(n)>> ELSE <<d(n \div 10), d(n % 10)>>

\* line 967: item_id = f"{row_id}_{address}" (the filter does not strip)
FilterKey(it) == DecimalText(it.row_id) \o <<"_">> \o it.address

\* lines 991-995: item_id built from the stripped address
ItemKey(it) == DecimalText(it.row_id) \o <<"_">> \o Strip(it.address)

(***************************************************************************)
(* YouTubeUploader: the publish sink and its confirmation gate.            *)
(***************************************************************************)
T_url == <<"<youtube url>">>
T_mock_url == <<"<mock youtube url>">>
T_cancelled == <<"<user cancelled the upload>">>
T_api_error == <<"<upload error>">>
T_upload_failed == <<"<upload failed: >">>
T_error_prefix == <<"<error: >">>

\* what the environment decides during one publish call
PublishEnvs ==
    [prep_raises : BOOLEAN,     \* building title/description raises
     has_service : BOOLEAN,     \* youtube_service is set (setup_youtube_auth succeeded)
     gate : BOOLEAN,            \* the answer of _show_upload_confirmation
     upload_ok : BOOLEAN]       \* the upload call succeeds

\* lines 672-677 with _upload_to_youtube / _mock_upload
DoUpload(e) ==
    IF e.has_service
    THEN [ok |-> e.upload_ok,
          text |-> IF e.upload_ok THEN T_url ELSE T_api_error,
          events |-> <<"upload">>]
    ELSE [ok |-> e.upload_ok,
          text |-> IF e.upload_ok THEN T_mock_url ELSE T_api_error,
          events |-> <<"mock_upload">>]

\* a plausible slip: the answer of the confirmation gate is ignored
upload_ignoring_gate(mode, e) ==
    LET up == DoUpload(e)
    IN  IF ~mode
        THEN [up EXCEPT !.events = <<"mode_confirm", IF e.gate THEN "gate_yes" ELSE "gate_no">> \o @]
        ELSE [up EXCEPT !.events = <<"mode_auto">> \o @]

\* upload_video_with_confirmation (lines 652-681): mode is auto_upload_mode
\* as line 662 reads it
upload_video_with_confirmation(mode, e) ==
    IF ~mode
    THEN IF ~e.gate
         THEN [ok |-> FALSE, text |-> T_cancelled, events |-> <<"mode_confirm", "gate_no">>]
         ELSE LET up == DoUpload(e)
              IN  [up EXCEPT !.events = <<"mode_confirm", "gate_yes">> \o @]
    ELSE LET up == DoUpload(e)
         IN  [up EXCEPT !.events = <<"mode_auto">> \o @]

\* _upload_to_youtube_with_confirmation (lines 2810-2852): the value stage 8
\* stores in youtube_url, and the publish events
upload_to_youtube_with_confirmation(mode, e) ==
    IF e.prep_raises THEN [url |-> NoneText, events |-> <<>>]
    ELSE LET r == upload_video_with_confirmation(mode, e)
         IN  [url |-> IF r.ok THEN r.text ELSE T_upload_failed \o r.text,
              events |-> r.events]

(***************************************************************************)
(* CompleteAutomationSystem.run_full_automation_with_notice.               *)
(***************************************************************************)
\* stages 1..7 call collaborators that may raise; 0 means none does
FailStages == 0..7

\* str(e): the text of the exception the handler caught
T_exc == <<"<exception text>">>

\* the six artifact fields of ContentResult
ArtifactFields == {"video_file", "script", "ppt_file", "voice_file",
                   "subtitle_file", "thumbnail_file"}

NoResult == [success |-> FALSE, youtube_url |-> EmptyStr, error_message |-> EmptyStr,
             sheets_row_id |-> 0, artifacts |-> [f \in ArtifactFields |-> EmptyStr],
             returned |-> FALSE]

\* a plausible slip: the failure result loses the row id it was given
FailureResultNoRow(stage, row_id) ==
    [success |-> FALSE, youtube_url |-> EmptyStr, error_message |-> T_exc,
     sheets_row_id |-> 0, artifacts |-> [f \in ArtifactFields |-> EmptyStr],
     returned |-> TRUE]

\* a plausible slip: the failure result keeps the artifacts made before the failure
FailureResultPartial(stage, row_id) ==
    [success |-> FALSE, youtube_url |-> EmptyStr, error_message |-> T_exc,
     sheets_row_id |-> row_id,
     artifacts |-> [f \in ArtifactFields |->
                      IF (f = "script" /\ stage > 2) \/ (f = "ppt_file" /\ stage > 3)
                         \/ (f = "thumbnail_file" /\ stage > 4)
                         \/ (f \in {"voice_file", "subtitle_file"} /\ stage > 5)
                      THEN <<"<path of>", f>> ELSE EmptyStr],
     returned |-> TRUE]

\* lines 2560-2571: the result of the exception handler
FailureResult(stage, row_id) ==
    [success |-> FALSE, youtube_url |-> EmptyStr, error_message |-> T_exc,
     sheets_row_id |-> row_id, artifacts |-> [f \in ArtifactFields |-> EmptyStr],
     returned |-> TRUE]

\* lines 2540-2550: the result of a run that reached stage 9
SuccessResult(youtube_url, row_id) ==
    [success |-> TRUE, youtube_url |-> youtube_url, error_message |-> NoneText,
     sheets_row_id |-> row_id,
     artifacts |-> [f \in ArtifactFields |-> <<"<path of>", f>>],
     returned |-> TRUE]

\* one update_status call, as the history records it
Call(row_id, status) == [row_id |-> row_id, status |-> status]

\* the pipeline counts one more invocation for a key (history; saturates at 2)
CountRun(r, key) ==
    IF key \in DOMAIN r THEN [r EXCEPT ![key] = IF @ < 2 THEN @ + 1 ELSE @]
    ELSE r @@ (key :> 1)

\* ProgressTracker.total_steps (line 166)
total_steps == 10

\* the overall progress of lines 184-191 in exact arithmetic, truncated:
\* int((step / total_steps) * 100) without sub_progress, and with it
\* int(((step + (1 / total_steps) * (sub_progress / 100)) / total_steps) * 100),
\* in which the share of the step is divided by total_steps a second time
ExactPercent(step, sub_progress) ==
    IF sub_progress > 0
    THEN (100 * (step * total_steps * 100 + sub_progress))
            \div (total_steps * total_steps * 100)
    ELSE (step * 100) \div total_steps

\* the program computes in binary floating point (IEEE 754 double).  For
\* step 0..9 the exact value is a whole number only when sub_progress is 0
\* or 100 and otherwise lies at least 0.01 from one, so only there can
\* rounding change what int() truncates to; of those twenty products one is
\* rounded below its exact value: ((9 + 0.1) / 10) * 100 = 90.99999999999999
RoundedBelow(step, sub_progress) == step = 9 /\ sub_progress = 100

\* a variant that does not scale sub_progress by 1/100: the step's share is
\* (1 / total_steps) * sub_progress
percent_unscaled(step, sub_progress) ==
    IF sub_progress > 0
    THEN (100 * (step * total_steps + sub_progress)) \div (total_steps * total_steps)
    ELSE (step * 100) \div total_steps

\* overall_progress as ProgressTracker.update computes it (lines 184-191)
percent(step, sub_progress) ==
    IF RoundedBelow(step, sub_progress) THEN ExactPercent(step, sub_progress) - 1
    ELSE ExactPercent(step, sub_progress)

\* a tracker as __init__ leaves it (lines 163-166), nothing reported yet
NewTracker == [current_step |-> 0, called |-> FALSE, step |-> 0, sub_progress |-> 0,
               percent |-> 0]

\* ProgressTracker.update(step, message, sub_progress): the tracker after the
\* call, with the percent handed to the observer
update(tr, step, sub_progress) ==
    [current_step |-> step, called |-> TRUE, step |-> step,
     sub_progress |-> sub_progress, percent |-> percent(step, sub_progress)]

\* ProgressTracker.substep(message, sub_progress) (lines 207-209)
substep(tr, sub_progress) == update(tr, tr.current_step, sub_progress)

\* what set_progress_callback (lines 2412-2414) may have stored: nothing, an
\* observer that returns, or an observer that raises
Observers == {"none", "ok", "raises"}

\* CompleteAutomationSystem.update_progress (lines 2429-2436), the callback of
\* every tracker a run makes (line 2497): the observer is called when one is
\* set, and its exception is caught and logged
update_progress(observer) ==
    [called |-> observer # "none", warned |-> observer = "raises", raised |-> FALSE]

\* a variant in which the observer's exception passes the handler of
\* update_progress and the handler of ProgressTracker.update
notify_unhandled(observer) ==
    [called |-> observer # "none", warned |-> FALSE, raised |-> observer = "raises"]

\* lines 200-205 of ProgressTracker.update: the tracker calls its callback,
\* which is update_progress, inside its own handler
notify(observer) == [update_progress(observer) EXCEPT !.raised = FALSE]

\* the steps a stage of a run is made of, after the stage's update call
Sub(n) == [op |-> "substep", n |-> n]
Work(k) == [op |-> "work", n |-> k]
Raise == [op |-> "raise", n |-> 0]
Final == [op |-> "update", n |-> 100]

\* the sub_progress values of a path, as substep calls
Subs(path) == [i \in 1..Len(path) |-> Sub(path[i])]

\* RealTTSEngine.generate_voice (lines 228-288): the substep calls of the
\* pyttsx3 and the fallback branch, of a branch that raises after its first
\* call (handler, line 287), of the gTTS branch, and of the gTTS branch
\* raising in the format conversion
VoicePaths == {<<10, 50, 100>>, <<10, 50, 80>>, <<10, 50, 80, 100>>, <<10, 50, 80, 80>>}

\* RealVideoEditor.create_video_from_ppt (lines 382-405) with
\* _create_real_video (407-438), _convert_ppt_to_images (440-497, two slides)
\* and _combine_images_audio_to_video (530-587): no encoder; one slide image
\* and the encoder succeeds, or fails; a deck of two slides; a deck that
\* gives no image; an exception after the first call of _create_real_video
VideoPaths == {<<10, 50, 100>>,
               <<10, 20, 60, 70, 85, 100>>,
               <<10, 20, 60, 70, 85>>,
               <<10, 20, 30, 30, 45, 60, 60, 70, 85, 100>>,
               <<10, 20, 30, 60, 60, 90>>,
               <<10, 20>>}

\* _upload_to_youtube_with_confirmation (lines 2810-2852) with
\* upload_video_with_confirmation (652-681), _upload_to_youtube (780-858, one
\* chunk report at 50 %: 50 + 50 * 0.3) and _mock_upload (860-881): the title
\* cannot be built; the confirmation is rejected, or accepted before the
\* simulated or the real upload, which may fail after its second call
UploadPaths(mode) ==
    IF mode
    THEN {<<>>, <<10, 30, 50, 100>>, <<10, 30, 40, 50, 65, 90, 100>>, <<10, 30, 40, 50>>}
    ELSE {<<>>, <<10>>, <<10, 50, 100>>, <<10, 40, 50, 65, 90, 100>>, <<10, 40, 50>>}

\* lines 2501-2553: what a run does in stage k after update(k, ...).  Stage 5
\* calls _generate_real_voice_and_subtitles (2753-2767), which makes the voice
\* and then the subtitle file; stage 6 has no statement of its own (2522-2523)
StageScripts(k, mode) ==
    CASE k \in 1..4 -> {<<Work(k)>>, <<Work(k), Raise>>}
      [] k = 5 -> {<<Work(5)>> \o Subs(v) \o <<Work(6)>> : v \in VoicePaths}
                  \cup {<<Work(5), Raise>>}
      [] k = 6 -> {<<>>}
      [] k = 7 -> {<<Work(7)>> \o Subs(v) : v \in VideoPaths} \cup {<<Work(7), Raise>>}
      [] k = 8 -> {<<Work(8)>> \o Subs(u) : u \in UploadPaths(mode)}
      [] k = 9 -> {<<Work(9), Final>>}

\* one run_full_automation_with_notice call: where it is, the stage of its
\* last update call, what is left of the stage, and as history the stages it
\* passed to update, the stages whose work it started, the percent its last
\* report delivered, and what sent it to the handler
NoRun == [at |-> "idle", stage |-> 0, todo |-> <<>>, updates |-> <<>>, worked |-> {},
          last |-> -1, cause |-> "none", success |-> FALSE]

\* the run after one of its report calls delivered tr.percent: it goes on
\* with rest, or the call raised and the handler (2555-2571) returns failure
Reported(r, tr, rest) ==
    IF notify(progress_callback).raised
    THEN [r EXCEPT !.at = "returned", !.todo = <<>>, !.cause = "observer",
                   !.success = FALSE]
    ELSE [r EXCEPT !.todo = rest, !.last = tr.percent]

\* line 2410: the constructor leaves the progress_tracker attribute None
NoTracker == [made_by |-> -1]

\* line 2497: a run makes its own ProgressTracker and stores it in the
\* attribute all runs of the object share; the tracker is told apart from
\* the others by the thread that made it
ProgressTracker(t) == [made_by |-> t]

\* self.progress_tracker.update(...) (lines 2499-2552) raises AttributeError
\* when the attribute holds None
TrackerLost == progress_tracker = NoTracker

\* what the environment decides for the voice backend of one run: whether the
\* engine call raises, and whether the fallback file can be written
VoiceEnvs ==
    IF flaky THEN [backend : {"ok", "raises"}, mock_ok : BOOLEAN]
    ELSE {[backend |-> "ok", mock_ok |-> TRUE]}

\* the same for the video backend, whose encoder may also report failure
\* (returncode # 0, line 576)
VideoEnvs ==
    IF flaky THEN [backend : {"ok", "raises", "fails"}, mock_ok : BOOLEAN]
    ELSE {[backend |-> "ok", mock_ok |-> TRUE]}

\* _create_mock_voice (lines 302-327) and _create_mock_video (lines 589-603):
\* the fallback file is written, or the write fails and a falsy value returns
create_mock(mock_ok) ==
    [raised |-> FALSE, ok |-> mock_ok, artifact |-> IF mock_ok THEN "mock" ELSE "none"]

\* a variant of generate_voice without the handler of lines 284-288
generate_voice_unhandled(e) ==
    IF e.backend = "ok" THEN [raised |-> FALSE, ok |-> TRUE, artifact |-> "real"]
    ELSE [raised |-> TRUE, ok |-> FALSE, artifact |-> "none"]

\* RealTTSEngine.generate_voice (lines 228-288): the engine makes the file, or
\* its exception is caught and the fallback file is made instead
generate_voice(e) ==
    IF e.backend = "ok" THEN [raised |-> FALSE, ok |-> TRUE, artifact |-> "real"]
    ELSE create_mock(e.mock_ok)

\* RealVideoEditor.create_video_from_ppt (lines 382-405) with
\* _create_real_video and _combine_images_audio_to_video: a failure reported
\* by the encoder and an exception both end in the fallback file
create_video_from_ppt(e) ==
    IF e.backend = "ok" THEN [raised |-> FALSE, ok |-> TRUE, artifact |-> "real"]
    ELSE create_mock(e.mock_ok)

\* no voice or video stage has run
NoArtifact == [backend |-> "none", ok |-> FALSE, artifact |-> "none"]
NoMedia == [aborted_by |-> "none", voice |-> NoArtifact, video |-> NoArtifact]

\* lines 2495-2499: the call is made, the tracker is created, stage 0 is reported
PipeBegin(t) ==
    /\ pc[t] = "call"
    /\ pc' = [pc EXCEPT ![t] = "p_stages"]
    /\ runs' = IF t \in Workers THEN CountRun(runs, ItemKey(item[t])) ELSE runs
    /\ result' = [result EXCEPT ![t] = NoResult]
    /\ plog' = [plog EXCEPT ![t] = <<>>]
    /\ progress_tracker' = ProgressTracker(t)
    /\ cycle' = IF t \in Workers THEN [cycle EXCEPT ![t].acted = TRUE] ELSE cycle
    /\ media' = [media EXCEPT ![t] = NoMedia]
    /\ UNCHANGED <<flaky, slept, u_out, p_out, pipe, progress_callback, c_out, sheet_url, s_out,
                   sheet, conn, q_out, is_running, SHUTDOWN_FLAG, processed_items,
                   nthreads, pending_items, new_items, item, auto_upload_mode, wlog>>

\* lines 2501-2528 and the handler 2555-2571: stages 1..7 run in order; when
\* one raises, the handler writes the error status and returns the failure
PipeStages(t) ==
    /\ pc[t] = "p_stages"
    /\ \E fs \in (IF TrackerLost THEN {1} ELSE FailStages),
          wf \in WriteFailures(conn, sheet, EmptyStr),
          ve \in VoiceEnvs, vd \in VideoEnvs :
        LET row_id == item[t].row_id
            voice == generate_voice(ve)
            video == create_video_from_ppt(vd)
            \* what sends the run to the handler: a stage before the voice
            \* backend is called, the voice backend, a later stage before the
            \* video backend is called, or the video backend
            cause == IF fs \in 1..5 THEN "stage"
                     ELSE IF voice.raised THEN "voice"
                     ELSE IF fs \in 6..7 THEN "stage"
                     ELSE IF video.raised THEN "video"
                     ELSE "none"
            made == [aborted_by |-> "none",
                     voice |-> [backend |-> ve.backend, ok |-> voice.ok,
                                artifact |-> voice.artifact],
                     video |-> [backend |-> vd.backend, ok |-> video.ok,
                                artifact |-> video.artifact]]
        IN  IF cause # "none"
            THEN /\ sheet' = IF row_id # 0
                             THEN update_status(conn, sheet, row_id, ST_error, EmptyStr, wf)
                             ELSE sheet
                 /\ wlog' = IF row_id # 0
                            THEN [wlog EXCEPT ![t] = Append(@, Call(row_id, ST_error))]
                            ELSE wlog
                 /\ result' = [result EXCEPT ![t] = FailureResult(fs, row_id)]
                 /\ plog' = [plog EXCEPT ![t] = <<"raised">>]
                 /\ media' = [media EXCEPT ![t] =
                        IF cause = "stage" THEN [NoMedia EXCEPT !.aborted_by = cause]
                        ELSE [made EXCEPT !.aborted_by = cause]]
                 /\ pc' = [pc EXCEPT ![t] = "p_ret"]
            ELSE /\ pc' = [pc EXCEPT ![t] = "p_publish"]
                 /\ media' = [media EXCEPT ![t] = made]
                 /\ UNCHANGED <<sheet, wlog, result, plog>>
    /\ UNCHANGED <<flaky, progress_tracker, slept, u_out, p_out, pipe, progress_callback, c_out, sheet_url, s_out,
                   conn, q_out, is_running, SHUTDOWN_FLAG, processed_items, nthreads,
                   pending_items, new_items, item, auto_upload_mode, runs, cycle>>

\* lines 2530-2553: stage 8 publishes, stage 9 writes the done status and the
\* result is returned
PipePublish(t) ==
    /\ pc[t] = "p_publish"
    /\ IF TrackerLost
       THEN \* update(8, ...) raises and the handler (2555-2571) takes over
            LET row_id == item[t].row_id
            IN  /\ \E wf \in WriteFailures(conn, sheet, EmptyStr) : sheet' = IF row_id # 0
                            THEN update_status(conn, sheet, row_id, ST_error, EmptyStr, wf)
                            ELSE sheet
                /\ wlog' = IF row_id # 0
                           THEN [wlog EXCEPT ![t] = Append(@, Call(row_id, ST_error))]
                           ELSE wlog
                /\ plog' = [plog EXCEPT ![t] = <<"raised">>]
                /\ result' = [result EXCEPT ![t] = FailureResult(8, row_id)]
                /\ pc' = [pc EXCEPT ![t] = "p_ret"]
       ELSE \E e \in PublishEnvs :
        LET row_id == item[t].row_id
            up == upload_to_youtube_with_confirmation(auto_upload_mode, e)
        IN  /\ \E wf \in WriteFailures(conn, sheet, up.url) : sheet' = IF row_id # 0
                        THEN update_status(conn, sheet, row_id, ST_done, up.url, wf)
                        ELSE sheet
            /\ wlog' = IF row_id # 0
                       THEN [wlog EXCEPT ![t] = Append(@, Call(row_id, ST_done))]
                       ELSE wlog
            /\ plog' = [plog EXCEPT ![t] = up.events]
            /\ result' = [result EXCEPT ![t] = SuccessResult(up.url, row_id)]
            /\ pc' = [pc EXCEPT ![t] = "p_ret"]
    /\ UNCHANGED <<flaky, progress_tracker, slept, u_out, p_out, pipe, progress_callback, c_out, sheet_url, s_out, media,
                   conn, q_out, is_running, SHUTDOWN_FLAG, processed_items, nthreads,
                   pending_items, new_items, item, auto_upload_mode, runs, cycle>>

\* YouTubeUploader.set_auto_upload_mode
SetAutoUploadMode(enabled) ==
    /\ ~SHUTDOWN_FLAG
    /\ auto_upload_mode' = enabled
    /\ UNCHANGED <<flaky, progress_tracker, slept, u_out, p_out, pipe, progress_callback, c_out, sheet_url, s_out, media,
                   sheet, conn, q_out, is_running, SHUTDOWN_FLAG, processed_items,
                   nthreads, pc, pending_items, new_items, item, result, runs, wlog,
                   plog, cycle>>

(***************************************************************************)
(* A manual run on the caller's thread: run_full_automation(address,       *)
(* property_type, sheets_row_id).                                          *)
(***************************************************************************)
A_addr == <<"A">>
B_addr == <<"B">>

ManualRun(address, row_id) ==
    /\ ~SHUTDOWN_FLAG
    /\ pc[Caller] = "idle"
    /\ pc' = [pc EXCEPT ![Caller] = "call"]
    /\ item' = [item EXCEPT ![Caller] = [row_id |-> row_id, address |-> address]]
    /\ wlog' = [wlog EXCEPT ![Caller] = <<>>]
    /\ UNCHANGED <<flaky, progress_tracker, slept, u_out, p_out, pipe, progress_callback, c_out, sheet_url, s_out, media,
                   sheet, conn, q_out, is_running, SHUTDOWN_FLAG, processed_items,
                   nthreads, pending_items, new_items, result, auto_upload_mode,
                   runs, plog, cycle>>

ManualReturn ==
    /\ pc[Caller] = "p_ret"
    /\ pc' = [pc EXCEPT ![Caller] = "idle"]
    /\ item' = [item EXCEPT ![Caller] = NoItem]
    /\ result' = [result EXCEPT ![Caller] = NoResult]
    /\ wlog' = [wlog EXCEPT ![Caller] = <<>>]
    /\ plog' = [plog EXCEPT ![Caller] = <<>>]
    /\ media' = [media EXCEPT ![Caller] = NoMedia]
    /\ UNCHANGED <<flaky, progress_tracker, slept, u_out, p_out, pipe, progress_callback, c_out, sheet_url, s_out,
                   sheet, conn, q_out, is_running, SHUTDOWN_FLAG, processed_items,
                   nthreads, pending_items, new_items, auto_upload_mode, runs, cycle>>

(***************************************************************************)
(* AutoMonitoringManager.                                                  *)
(***************************************************************************)
\* list is what the poll of the cycle returned, started the items the for loop
\* of lines 979-983 has handed to _process_single_item so far
NoCycle == [prev |-> <<>>, list |-> <<>>, same |-> FALSE, acted |-> FALSE,
            started |-> <<>>]

\* the poll cycle of worker t ended: complete when the for loop was not broken
CycleEnd(c, t, complete) ==
    [c EXCEPT ![t].prev = IF complete THEN <<c[t].list>> ELSE <<>>, ![t].list = <<>>,
              ![t].started = <<>>]

\* the reference the constructor passes (lines 895-896), which is also what the
\* console passes when the user enters nothing (lines 3128-3130), and another
\* reference a user may enter
T_default_url == <<"<default sheet url>">>
T_other_url == <<"<another sheet url>">>
SheetUrls == {T_default_url, T_other_url}

\* self.monitoring_thread: threads are numbered as they are created, so the
\* attribute holds the number of the last one
monitoring_thread == nthreads

\* the attributes of the manager that start_monitoring reads or writes, and
\* processed_items
Manager ==
    [is_running |-> is_running, monitoring_thread |-> monitoring_thread,
     sheet_url |-> sheet_url, processed_items |-> processed_items]

\* a variant of start_monitoring without the test of lines 900-902
start_monitoring_unguarded(m, ref) ==
    [m EXCEPT !.is_running = TRUE, !.sheet_url = ref, !.monitoring_thread = @ + 1]

\* start_monitoring (lines 898-915) with argument ref: a call while running
\* only logs a warning and returns; otherwise the flag is set, the reference
\* stored and a new thread created and started
start_monitoring(m, ref) ==
    IF m.is_running THEN m
    ELSE [m EXCEPT !.is_running = TRUE, !.sheet_url = ref, !.monitoring_thread = @ + 1]

\* no start_monitoring call observed yet
NoStartCall == [called |-> FALSE, ref |-> EmptyStr, raised |-> FALSE]

\* what a start_monitoring(ref) call does to the manager and its threads
StartEffects(ref) ==
    LET m == start_monitoring(Manager, ref)
    IN  /\ ~SHUTDOWN_FLAG
        /\ m.monitoring_thread <= MaxThreads
        /\ is_running' = m.is_running
        /\ sheet_url' = m.sheet_url
        /\ nthreads' = m.monitoring_thread
        /\ processed_items' = m.processed_items
        /\ pc' = IF m.monitoring_thread # monitoring_thread
                 THEN [pc EXCEPT ![m.monitoring_thread] = "loop"] ELSE pc
        /\ UNCHANGED <<flaky, progress_tracker, slept, u_out, p_out, pipe, progress_callback, c_out, media,
                       sheet, conn, q_out, SHUTDOWN_FLAG, pending_items,
                       new_items, item, result, auto_upload_mode, runs, wlog, plog, cycle>>

\* a start_monitoring call of the console (option 1, lines 3128-3136)
StartMonitoring(ref) ==
    /\ StartEffects(ref)
    /\ UNCHANGED s_out

\* the same call, observed: the history keeps the argument and whether the
\* call raised (no statement of lines 900-902 can)
StartCall(ref) ==
    /\ StartEffects(ref)
    /\ s_out' = [called |-> TRUE, ref |-> ref, raised |-> FALSE]

\* a variant of stop_monitoring that also forgets the items processed
StopMonitoringForgetting ==
    /\ ~SHUTDOWN_FLAG
    /\ is_running' = FALSE
    /\ processed_items' = {}
    /\ UNCHANGED <<flaky, progress_tracker, slept, u_out, p_out, pipe, progress_callback, c_out, sheet_url, s_out, media,
                   sheet, conn, q_out, SHUTDOWN_FLAG, nthreads, pc,
                   pending_items, new_items, item, result, auto_upload_mode, runs,
                   wlog, plog, cycle>>

\* stop_monitoring (lines 917-924): clears the flag and waits two seconds;
\* it does not join the worker
StopMonitoring ==
    /\ ~SHUTDOWN_FLAG
    /\ is_running' = FALSE
    /\ UNCHANGED <<flaky, progress_tracker, slept, u_out, p_out, pipe, progress_callback, c_out, sheet_url, s_out, media,
                   sheet, conn, q_out, SHUTDOWN_FLAG, processed_items, nthreads, pc,
                   pending_items, new_items, item, result, auto_upload_mode, runs,
                   wlog, plog, cycle>>

\* signal_handler (lines 3308-3320): the flag is set and the main thread
\* exits, so the console makes no further call
Shutdown ==
    /\ ~SHUTDOWN_FLAG
    /\ SHUTDOWN_FLAG' = TRUE
    /\ UNCHANGED <<flaky, progress_tracker, slept, u_out, p_out, pipe, progress_callback, c_out, sheet_url, s_out, media,
                   sheet, conn, q_out, is_running, processed_items, nthreads, pc,
                   pending_items, new_items, item, result, auto_upload_mode, runs,
                   wlog, plog, cycle>>

\* a variant of the loop test that gives up when the queue has no connection
LoopTestGivesUp(t) ==
    /\ pc[t] = "loop"
    /\ pc' = [pc EXCEPT ![t] =
                IF is_running /\ ~SHUTDOWN_FLAG /\ conn.data_source # "mock"
                THEN "poll" ELSE "exited"]
    /\ UNCHANGED <<flaky, progress_tracker, slept, u_out, p_out, pipe, progress_callback, c_out, sheet_url, s_out, media,
                   sheet, conn, q_out, is_running, SHUTDOWN_FLAG, processed_items,
                   nthreads, pending_items, new_items, item, result, auto_upload_mode,
                   runs, wlog, plog, cycle>>

\* line 930: while self.is_running and not SHUTDOWN_FLAG
LoopTest(t) ==
    /\ pc[t] = "loop"
    /\ pc' = [pc EXCEPT ![t] = IF is_running /\ ~SHUTDOWN_FLAG THEN "poll" ELSE "exited"]
    /\ UNCHANGED <<flaky, progress_tracker, slept, u_out, p_out, pipe, progress_callback, c_out, sheet_url, s_out, media,
                   sheet, conn, q_out, is_running, SHUTDOWN_FLAG, processed_items,
                   nthreads, pending_items, new_items, item, result, auto_upload_mode,
                   runs, wlog, plog, cycle>>

\* lines 957-962: the worker asks the queue for the pending items
Poll(t) ==
    /\ pc[t] = "poll"
    /\ \E ce \in ConnectEnvs(conn) :
      \E readOk \in ReadEnvs(ConnAfterGet(conn, sheet, ce.gspread, ce.works)) :
        LET c2 == ConnAfterGet(conn, sheet, ce.gspread, ce.works)
            got == get_property_queue(c2, sheet, readOk)
            cy == [prev |-> cycle[t].prev, list |-> got,
                   same |-> cycle[t].prev = <<got>>, acted |-> FALSE,
                   started |-> <<>>]
        IN  /\ conn' = c2
            /\ IF got = <<>>
               THEN /\ pc' = [pc EXCEPT ![t] = "sleep"]
                    /\ cycle' = CycleEnd([cycle EXCEPT ![t] = cy], t, TRUE)
                    /\ pending_items' = [pending_items EXCEPT ![t] = <<>>]
                    /\ new_items' = [new_items EXCEPT ![t] = <<>>]
               ELSE /\ pc' = [pc EXCEPT ![t] = "filter"]
                    /\ cycle' = [cycle EXCEPT ![t] = cy]
                    /\ pending_items' = [pending_items EXCEPT ![t] = got]
                    /\ new_items' = [new_items EXCEPT ![t] = <<>>]
    /\ UNCHANGED <<flaky, progress_tracker, slept, u_out, p_out, pipe, progress_callback, c_out, sheet_url, s_out, media,
                   sheet, q_out, is_running, SHUTDOWN_FLAG, processed_items, nthreads,
                   item, result, auto_upload_mode, runs, wlog, plog>>

\* a plausible slip: the filter never finds an item processed
IsNewAlways(it, processed) == TRUE

\* a variant that finds an item processed when a key of its row is recorded,
\* whatever the address
IsNewByRow(it, processed) ==
    LET prefix == DecimalText(it.row_id) \o <<"_">>
    IN  ~\E k \in processed :
            Len(k) >= Len(prefix) /\ SubSeq(k, 1, Len(prefix)) = prefix

\* lines 967-968: the item is new when its key is not in processed_items
IsNew(it, processed) == FilterKey(it) \notin processed

\* a variant of the filter loop that puts each new item in front of the list
FilterPrepending(t) ==
    /\ pc[t] = "filter"
    /\ pending_items[t] # <<>>
    /\ LET it == Head(pending_items[t])
           new == IF IsNew(it, processed_items) THEN <<it>> \o new_items[t]
                  ELSE new_items[t]
           rest == Tail(pending_items[t])
       IN  /\ pending_items' = [pending_items EXCEPT ![t] = rest]
           /\ new_items' = [new_items EXCEPT ![t] = new]
           /\ pc' = [pc EXCEPT ![t] = IF rest # <<>> THEN "filter"
                                      ELSE IF new = <<>> THEN "sleep" ELSE "item"]
           /\ cycle' = IF rest = <<>> /\ new = <<>> THEN CycleEnd(cycle, t, TRUE) ELSE cycle
    /\ UNCHANGED <<flaky, progress_tracker, slept, u_out, p_out, pipe, progress_callback, c_out, sheet_url, s_out, media,
                   sheet, conn, q_out, is_running, SHUTDOWN_FLAG, processed_items,
                   nthreads, item, result, auto_upload_mode, runs, wlog, plog>>

\* lines 964-976: one turn of the filter loop; after the last item the
\* cycle returns when nothing is new
Filter(t) ==
    /\ pc[t] = "filter"
    /\ pending_items[t] # <<>>
    /\ LET it == Head(pending_items[t])
           new == IF IsNew(it, processed_items) THEN Append(new_items[t], it)
                  ELSE new_items[t]
           rest == Tail(pending_items[t])
       IN  /\ pending_items' = [pending_items EXCEPT ![t] = rest]
           /\ new_items' = [new_items EXCEPT ![t] = new]
           /\ pc' = [pc EXCEPT ![t] = IF rest # <<>> THEN "filter"
                                      ELSE IF new = <<>> THEN "sleep" ELSE "item"]
           /\ cycle' = IF rest = <<>> /\ new = <<>> THEN CycleEnd(cycle, t, TRUE) ELSE cycle
    /\ UNCHANGED <<flaky, progress_tracker, slept, u_out, p_out, pipe, progress_callback, c_out, sheet_url, s_out, media,
                   sheet, conn, q_out, is_running, SHUTDOWN_FLAG, processed_items,
                   nthreads, item, result, auto_upload_mode, runs, wlog, plog>>

\* lines 979-983: the head of the for loop over the new items
ItemNext(t) ==
    /\ pc[t] = "item"
    /\ IF new_items[t] = <<>>
       THEN /\ pc' = [pc EXCEPT ![t] = "sleep"]
            /\ cycle' = CycleEnd(cycle, t, TRUE)
            /\ UNCHANGED <<new_items, item, wlog>>
       ELSE IF ~is_running \/ SHUTDOWN_FLAG
       THEN /\ pc' = [pc EXCEPT ![t] = "sleep"]
            /\ cycle' = CycleEnd(cycle, t, FALSE)
            /\ new_items' = [new_items EXCEPT ![t] = <<>>]
            /\ UNCHANGED <<item, wlog>>
       ELSE /\ pc' = [pc EXCEPT ![t] = "proc"]
            /\ item' = [item EXCEPT ![t] = Head(new_items[t])]
            /\ new_items' = [new_items EXCEPT ![t] = Tail(@)]
            /\ wlog' = [wlog EXCEPT ![t] = <<>>]
            /\ cycle' = [cycle EXCEPT ![t].started = Append(@, Head(new_items[t]))]
    /\ UNCHANGED <<flaky, progress_tracker, slept, u_out, p_out, pipe, progress_callback, c_out, sheet_url, s_out, media,
                   sheet, conn, q_out, is_running, SHUTDOWN_FLAG, processed_items,
                   nthreads, pending_items, result, auto_upload_mode, runs, plog>>

\* a variant that treats an item without address like any other item
ProcessItemNoSkip(t) ==
    /\ pc[t] = "proc"
    /\ \E wf \in WriteFailures(conn, sheet, EmptyStr) :
        sheet' = update_status(conn, sheet, item[t].row_id, ST_processing, EmptyStr, wf)
    /\ wlog' = [wlog EXCEPT ![t] = Append(@, Call(item[t].row_id, ST_processing))]
    /\ cycle' = [cycle EXCEPT ![t].acted = TRUE]
    /\ pc' = [pc EXCEPT ![t] = "call"]
    /\ UNCHANGED <<flaky, progress_tracker, slept, u_out, p_out, pipe, progress_callback, c_out, sheet_url, s_out, media,
                   conn, q_out, is_running, SHUTDOWN_FLAG, nthreads, pending_items,
                   new_items, item, result, auto_upload_mode, runs, plog, processed_items>>

\* lines 991-1007: an item without address is recorded and skipped; otherwise
\* the in-progress status is written
ProcessItem(t) ==
    /\ pc[t] = "proc"
    /\ IF Strip(item[t].address) = EmptyStr
       THEN /\ processed_items' = processed_items \cup {ItemKey(item[t])}
            /\ pc' = [pc EXCEPT ![t] = "item"]
            /\ UNCHANGED <<sheet, wlog, cycle>>
       ELSE /\ \E wf \in WriteFailures(conn, sheet, EmptyStr) :
                sheet' = update_status(conn, sheet, item[t].row_id, ST_processing, EmptyStr, wf)
            /\ wlog' = [wlog EXCEPT ![t] = Append(@, Call(item[t].row_id, ST_processing))]
            /\ cycle' = [cycle EXCEPT ![t].acted = TRUE]
            /\ pc' = [pc EXCEPT ![t] = "call"]
            /\ UNCHANGED processed_items
    /\ UNCHANGED <<flaky, progress_tracker, slept, u_out, p_out, pipe, progress_callback, c_out, sheet_url, s_out, media,
                   conn, q_out, is_running, SHUTDOWN_FLAG, nthreads, pending_items,
                   new_items, item, result, auto_upload_mode, runs, plog>>

\* lines 1018-1033: the final status is chosen from the result and written;
\* the result is not used after that
FinalStatus(t) ==
    /\ t \in Workers
    /\ pc[t] = "p_ret"
    /\ LET status == IF result[t].success THEN ST_done ELSE ST_error
           youtube_url == IF result[t].success THEN result[t].youtube_url
                          ELSE T_error_prefix \o result[t].error_message
       IN  /\ \E wf \in WriteFailures(conn, sheet, youtube_url) :
                sheet' = update_status(conn, sheet, item[t].row_id, status, youtube_url, wf)
           /\ wlog' = [wlog EXCEPT ![t] = Append(@, Call(item[t].row_id, status))]
    /\ result' = [result EXCEPT ![t] = NoResult]
    /\ plog' = [plog EXCEPT ![t] = <<>>]
    /\ pc' = [pc EXCEPT ![t] = "record"]
    /\ media' = [media EXCEPT ![t] = NoMedia]
    /\ UNCHANGED <<flaky, progress_tracker, slept, u_out, p_out, pipe, progress_callback, c_out, sheet_url, s_out,
                   conn, q_out, is_running, SHUTDOWN_FLAG, processed_items, nthreads,
                   pending_items, new_items, item, auto_upload_mode, runs, cycle>>

\* a variant that records only the items whose final status was done
RecordSuccessOnly(t) ==
    /\ pc[t] = "record"
    /\ processed_items' =
        IF wlog[t][Len(wlog[t])].status = ST_done
        THEN processed_items \cup {ItemKey(item[t])} ELSE processed_items
    /\ pc' = [pc EXCEPT ![t] = "cooldown"]
    /\ UNCHANGED <<flaky, progress_tracker, slept, u_out, p_out, pipe, progress_callback, c_out, sheet_url, s_out, media,
                   sheet, conn, q_out, is_running, SHUTDOWN_FLAG, nthreads,
                   pending_items, new_items, item, result, auto_upload_mode, runs,
                   wlog, plog, cycle>>

\* lines 1035-1036: the item is recorded as processed
Record(t) ==
    /\ pc[t] = "record"
    /\ processed_items' = processed_items \cup {ItemKey(item[t])}
    /\ pc' = [pc EXCEPT ![t] = "cooldown"]
    /\ UNCHANGED <<flaky, progress_tracker, slept, u_out, p_out, pipe, progress_callback, c_out, sheet_url, s_out, media,
                   sheet, conn, q_out, is_running, SHUTDOWN_FLAG, nthreads,
                   pending_items, new_items, item, result, auto_upload_mode, runs,
                   wlog, plog, cycle>>

\* lines 1038-1039: the ten-second pause, then the next item
Cooldown(t) ==
    /\ pc[t] = "cooldown"
    /\ pc' = [pc EXCEPT ![t] = "item"]
    /\ item' = [item EXCEPT ![t] = NoItem]
    /\ wlog' = [wlog EXCEPT ![t] = <<>>]
    /\ UNCHANGED <<flaky, progress_tracker, slept, u_out, p_out, pipe, progress_callback, c_out, sheet_url, s_out, media,
                   sheet, conn, q_out, is_running, SHUTDOWN_FLAG, processed_items,
                   nthreads, pending_items, new_items, result, auto_upload_mode, runs,
                   plog, cycle>>

\* lines 935-938: the interval sleep ends, by the flags or by the interval
SleepTick(t) ==
    /\ pc[t] = "sleep"
    /\ pc' = [pc EXCEPT ![t] = "loop"]
    /\ UNCHANGED <<flaky, progress_tracker, slept, u_out, p_out, pipe, progress_callback, c_out, sheet_url, s_out, media,
                   sheet, conn, q_out, is_running, SHUTDOWN_FLAG, processed_items,
                   nthreads, pending_items, new_items, item, result, auto_upload_mode,
                   runs, wlog, plog, cycle>>

(***************************************************************************)
(* The monitoring specification: one automation object from construction.  *)
(***************************************************************************)
V_empty == EmptyStr

\* the sheets the monitoring specification starts from
MonitorSheets ==
    {[headers |-> H_addr_status, rows |-> <<<<A_addr, V_empty>>, <<B_addr, ST_done>>>>],
     [headers |-> H_addr_status, rows |-> <<<<A_addr, K_daegijung>>>>]}

\* AutoMonitoringManager.__init__ (lines 887-896) starts the first worker
Init ==
    /\ sheet \in MonitorSheets
    /\ flaky = FALSE
    /\ conn = NewConn
    /\ q_out = NoQueueCall
    /\ is_running = TRUE
    /\ SHUTDOWN_FLAG = FALSE
    /\ processed_items = {}
    /\ nthreads = 1
    /\ pc = [t \in Threads |-> IF t = Caller THEN "idle" ELSE IF t = 1 THEN "loop" ELSE "unborn"]
    /\ pending_items = [t \in Workers |-> <<>>]
    /\ new_items = [t \in Workers |-> <<>>]
    /\ item = [t \in Threads |-> NoItem]
    /\ result = [t \in Threads |-> NoResult]
    /\ auto_upload_mode = FALSE
    /\ runs = <<>>
    /\ wlog = [t \in Threads |-> <<>>]
    /\ plog = [t \in Threads |-> <<>>]
    /\ cycle = [t \in Workers |-> NoCycle]
    /\ progress_tracker = NoTracker
    /\ slept = [t \in Workers |-> 0]
    /\ u_out = NoUpdate
    /\ sheet_url = T_default_url
    /\ s_out = NoStartCall
    /\ media = [t \in Threads |-> NoMedia]
    /\ p_out = NewTracker
    /\ pipe = [t \in Threads |-> NoRun]
    /\ progress_callback = "none"
    /\ c_out = NoNegotiation

\* the console starts and stops monitoring and the process may be shut down
\* while the workers run; the upload mode stays as constructed (confirmation),
\* the mode in which every publish outcome can occur.  What the queue reads
\* does not depend on the reference, so monitoring is started with the default
Next ==
    \/ StartMonitoring(T_default_url)
    \/ StopMonitoring
    \/ Shutdown
    \/ \E t \in Workers :
        \/ LoopTest(t)
        \/ Poll(t)
        \/ Filter(t)
        \/ ItemNext(t)
        \/ ProcessItem(t)
        \/ PipeBegin(t)
        \/ PipeStages(t)
        \/ PipePublish(t)
        \/ FinalStatus(t)
        \/ Record(t)
        \/ Cooldown(t)
        \/ SleepTick(t)

Spec == Init /\ [][Next]_vars

(***************************************************************************)
(* Properties of the monitoring specification.                             *)
(***************************************************************************)
\* the worker threads that are executing _monitoring_loop
LiveWorkers == {t \in Workers : pc[t] \notin {"unborn", "exited"}}

\* C1: monitoring invokes the pipeline at most once for each composite key
\* (row_id, address), under any interleaving of poll cycles and
\* start_monitoring / stop_monitoring calls.
C1_AtMostOncePerKey == \A k \in DOMAIN runs : runs[k] <= 1

\* C2: at every moment at most one worker thread is executing
\* _monitoring_loop, for every sequence of start_monitoring and
\* stop_monitoring calls.
C2_AtMostOneWorker == Cardinality(LiveWorkers) <= 1

\* C3: when a poll returns the list on which the worker's previous poll cycle
\* ran to completion, that poll finds no new item and makes no pipeline run
\* and no status write.
C3_IdempotentDiscovery ==
    \A t \in Workers : cycle[t].same => (new_items[t] = <<>> /\ ~cycle[t].acted)

\* C3 happens: a worker has finished a cycle on the same non-empty list as
\* its previous completed cycle
C3_Witness ==
    \E t \in Workers :
        /\ cycle[t].same
        /\ pc[t] = "sleep"
        /\ cycle[t].prev # <<>>
        /\ cycle[t].prev[1] # <<>>

\* C6: for each item the monitoring loop has processed, the queue has received
\* exactly one in-progress update_status call and then exactly one final
\* (done or error) update_status call, counting the loop's calls and the
\* calls of the pipeline run it invoked.
C6_OneFinalWrite ==
    \A t \in Workers :
        pc[t] = "record" =>
            /\ Len(wlog[t]) = 2
            /\ wlog[t][1] = Call(item[t].row_id, ST_processing)
            /\ wlog[t][2].row_id = item[t].row_id
            /\ wlog[t][2].status \in {ST_done, ST_error}

(***************************************************************************)
(* The queue specification: one FixedSheetsManager over a sheet drawn from *)
(* a bounded family, and the get_property_queue calls made on it.          *)
(***************************************************************************)
V_blank == <<" ">>
V_B_padded == <<" ", "B">>
V_Pending_padded == <<" ", "P", "e", "n", "d", "i", "n", "g", " ">>

\* the cells the rows are drawn from
QueueAddresses == {EmptyStr, V_blank, V_B_padded}
QueueStatuses == {EmptyStr, ST_done, K_done, K_daegijung, V_Pending_padded}

\* all sequences over S of length at most n
RECURSIVE SeqsUpTo(_, _)
SeqsUpTo(S, n) ==
    IF n = 0 THEN {<<>>}
    ELSE LET shorter == SeqsUpTo(S, n - 1)
         IN  shorter \cup {Append(q, x) : q \in shorter, x \in S}

\* sheets with an address and a status column (Latin or Hangul headers), and
\* sheets without a status column
QueueSheets ==
    {[headers |-> h, rows |-> r] :
        h \in {H_addr_status, H_juso_sangtae},
        r \in SeqsUpTo({<<a, st>> : a \in QueueAddresses, st \in QueueStatuses}, MaxRows)}
    \cup {[headers |-> H_addr_only, rows |-> r] :
            r \in SeqsUpTo({<<a>> : a \in QueueAddresses}, MaxRows)}

\* what the environment decides when a call of the queue specification has
\* to connect: any set of connection methods may succeed
QueueConnectEnvs(c) ==
    IF c.data_source = "none"
    THEN [gspread : BOOLEAN,
          works : SUBSET {"service_account", "public_csv", "api_v4", "oauth"}]
    ELSE {[gspread |-> TRUE, works |-> {}]}

\* one get_property_queue call (lines 1453-1547): q_out keeps the records it
\* read and the list it returned
QGet ==
    /\ \E ce \in QueueConnectEnvs(conn) :
        LET c2 == ConnAfterGet(conn, sheet, ce.gspread, ce.works)
        IN  \E readOk \in ReadEnvs(c2) :
                /\ conn' = c2
                /\ q_out' = [called |-> TRUE,
                             records |-> RecordsRead(c2, sheet, readOk),
                             pending |-> get_property_queue(c2, sheet, readOk),
                             bad |-> {}, raised |-> FALSE]
    /\ UNCHANGED <<sheet, flaky, progress_tracker, slept, u_out, p_out, pipe, progress_callback, c_out, sheet_url, s_out, media,
                   is_running, SHUTDOWN_FLAG, processed_items, nthreads, pc,
                   pending_items, new_items, item, result, auto_upload_mode, runs,
                   wlog, plog, cycle>>

InitQueue ==
    /\ sheet \in QueueSheets
    /\ flaky = FALSE
    /\ conn = NewConn
    /\ q_out = NoQueueCall
    /\ is_running = FALSE
    /\ SHUTDOWN_FLAG = FALSE
    /\ processed_items = {}
    /\ nthreads = 0
    /\ pc = [t \in Threads |-> IF t = Caller THEN "idle" ELSE "unborn"]
    /\ pending_items = [t \in Workers |-> <<>>]
    /\ new_items = [t \in Workers |-> <<>>]
    /\ item = [t \in Threads |-> NoItem]
    /\ result = [t \in Threads |-> NoResult]
    /\ auto_upload_mode = FALSE
    /\ runs = <<>>
    /\ wlog = [t \in Threads |-> <<>>]
    /\ plog = [t \in Threads |-> <<>>]
    /\ cycle = [t \in Workers |-> NoCycle]
    /\ progress_tracker = NoTracker
    /\ slept = [t \in Workers |-> 0]
    /\ u_out = NoUpdate
    /\ sheet_url = T_default_url
    /\ s_out = NoStartCall
    /\ media = [t \in Threads |-> NoMedia]
    /\ p_out = NewTracker
    /\ pipe = [t \in Threads |-> NoRun]
    /\ progress_callback = "none"
    /\ c_out = NoNegotiation

NextQueue == QGet

SpecQueue == InitQueue /\ [][NextQueue]_vars

(***************************************************************************)
(* Properties of the queue specification.                                  *)
(***************************************************************************)
\* the waiting vocabulary as the specification lists it
WaitingWords == {K_daegi, K_pending, K_cheorijeon, K_singyu, K_new}

\* a status that is empty or contains a waiting word
IsWaitingStatus(status) ==
    status = EmptyStr \/ \E k \in WaitingWords : Contains(status, k)

\* the data rows of the records the last call read
ReadRows == 1..Len(q_out.records.rows)

\* row i of the records read is in the returned list, with its address
Returned(i) ==
    \E j \in 1..Len(q_out.pending) :
        /\ q_out.pending[j].row_id = i + 1
        /\ q_out.pending[j].address = RowAddress(q_out.records.headers, q_out.records.rows[i])

\* C4: a row whose status is a completed value (neither empty nor containing
\* a waiting word) is not in the list get_property_queue returns.
C4_CompletedExcluded ==
    q_out.called =>
        \A i \in ReadRows :
            ~IsWaitingStatus(RowStatus(q_out.records.headers, q_out.records.rows[i]))
                => \A j \in 1..Len(q_out.pending) : q_out.pending[j].row_id # i + 1

\* C5 as stated: a row whose address cell is non-empty and whose status is
\* absent, empty or (lower-cased and stripped) contains a waiting word is
\* returned as pending.
C5_NonEmptyCellReturned ==
    q_out.called =>
        \A i \in ReadRows :
            LET h == q_out.records.headers
                row == q_out.records.rows[i]
            IN  (FirstField(address_fields, h, row) # EmptyStr
                 /\ IsWaitingStatus(RowStatus(h, row))) => Returned(i)

\* C5 amended: a row whose address is non-empty after stripping white space
\* and whose status is absent, empty or (lower-cased and stripped) contains a
\* waiting word is returned as pending, with row id idx + 2 and the stripped
\* address.
C5_WaitingReturned ==
    q_out.called =>
        \A i \in ReadRows :
            LET h == q_out.records.headers
                row == q_out.records.rows[i]
            IN  (RowAddress(h, row) # EmptyStr
                 /\ IsWaitingStatus(RowStatus(h, row))) => Returned(i)

\* C5 happens: a row with a padded address and a padded, capitalised waiting
\* status was read and returned
C5_Witness ==
    /\ q_out.called
    /\ \E i \in ReadRows :
        LET h == q_out.records.headers
            row == q_out.records.rows[i]
        IN  /\ FirstField(status_fields, h, row) = V_Pending_padded
            /\ FirstField(address_fields, h, row) = V_B_padded
            /\ Returned(i)

(***************************************************************************)
(* The pipeline specification: run_full_automation_with_notice called on   *)
(* the caller's thread of an automation object whose monitoring has been   *)
(* stopped and whose worker has left the loop.                             *)
(***************************************************************************)

PipeSheets ==
    {[headers |-> H_addr_status_url,
      rows |-> <<<<A_addr, V_empty, V_empty>>, <<B_addr, ST_done, V_empty>>>>]}

\* the sheets_row_id arguments of the calls: 0 is a call without one
PipeRowIds == {0, 2}

\* the first connection negotiation of the object, made by the console's
\* sheet test (line 3247) while no run is active
FirstConnect ==
    /\ pc[Caller] = "idle"
    /\ conn.data_source = "none"
    /\ \E ce \in ConnectEnvs(conn) :
        conn' = setup_sheets_connection(conn, sheet, ce.gspread, ce.works)
    /\ UNCHANGED <<sheet, flaky, progress_tracker, slept, u_out, p_out, pipe, progress_callback, c_out, sheet_url, s_out, media,
                   q_out, is_running, SHUTDOWN_FLAG, processed_items,
                   nthreads, pc, pending_items, new_items, item, result,
                   auto_upload_mode, runs, wlog, plog, cycle>>

InitPipe ==
    /\ sheet \in PipeSheets
    /\ flaky \in BOOLEAN
    /\ conn = NewConn
    /\ q_out = NoQueueCall
    /\ is_running = FALSE
    /\ SHUTDOWN_FLAG = FALSE
    /\ processed_items = {}
    /\ nthreads = 1
    /\ pc = [t \in Threads |-> IF t = Caller THEN "idle"
                                ELSE IF t = 1 THEN "exited" ELSE "unborn"]
    /\ pending_items = [t \in Workers |-> <<>>]
    /\ new_items = [t \in Workers |-> <<>>]
    /\ item = [t \in Threads |-> NoItem]
    /\ result = [t \in Threads |-> NoResult]
    /\ auto_upload_mode = FALSE
    /\ runs = <<>>
    /\ wlog = [t \in Threads |-> <<>>]
    /\ plog = [t \in Threads |-> <<>>]
    /\ cycle = [t \in Workers |-> NoCycle]
    /\ progress_tracker = NoTracker
    /\ slept = [t \in Workers |-> 0]
    /\ u_out = NoUpdate
    /\ sheet_url = T_default_url
    /\ s_out = NoStartCall
    /\ media = [t \in Threads |-> NoMedia]
    /\ p_out = NewTracker
    /\ pipe = [t \in Threads |-> NoRun]
    /\ progress_callback = "none"
    /\ c_out = NoNegotiation

NextPipe ==
    \/ FirstConnect
    \/ \E b \in BOOLEAN : SetAutoUploadMode(b)
    \/ \E r \in PipeRowIds : ManualRun(A_addr, r)
    \/ PipeBegin(Caller)
    \/ PipeStages(Caller)
    \/ PipePublish(Caller)
    \/ ManualReturn

SpecPipe == InitPipe /\ [][NextPipe]_vars

(***************************************************************************)
(* Properties of the pipeline specification.                               *)
(***************************************************************************)
\* the caller's run has returned its result
Returned0 == pc[Caller] = "p_ret"

\* event e is among the events of the caller's run
Happened(e) == \E i \in 1..Len(plog[Caller]) : plog[Caller][i] = e

\* C7: when a stage raises, run_full_automation_with_notice still returns: a
\* result with success = false, error_message the exception text and
\* sheets_row_id the given row id; with a row id it makes exactly one
\* update_status(row id, error) call and no done write, without one it makes
\* no update_status call.
C7_FailureIsReturned ==
    (Returned0 /\ Happened("raised")) =>
        /\ result[Caller].returned
        /\ ~result[Caller].success
        /\ result[Caller].error_message = T_exc
        /\ result[Caller].sheets_row_id = item[Caller].row_id
        /\ wlog[Caller] = IF item[Caller].row_id # 0
                          THEN <<Call(item[Caller].row_id, ST_error)>> ELSE <<>>

\* C7 happens: a run with a row id on a connected writable queue has failed
C7_Witness ==
    /\ Returned0
    /\ Happened("raised")
    /\ item[Caller].row_id # 0
    /\ Writable(conn)

\* C8: a returned result with success = false has all six artifact fields
\* and youtube_url empty; a returned result with success = true has all six
\* artifact fields non-empty.
C8_AllOrNothing ==
    Returned0 =>
        IF result[Caller].success
        THEN \A f \in ArtifactFields : result[Caller].artifacts[f] # EmptyStr
        ELSE /\ \A f \in ArtifactFields : result[Caller].artifacts[f] = EmptyStr
             /\ result[Caller].youtube_url = EmptyStr

\* C8 happens: a failed run has returned its result
C8_Witness == Returned0 /\ result[Caller].returned /\ ~result[Caller].success

\* C9: in confirmed mode, when the confirmation gate rejects the upload, the
\* run returns success = false with the cancellation message and the final
\* status written for its row is error.
C9_RejectionIsFailure ==
    (Returned0 /\ Happened("gate_no")) =>
        /\ ~result[Caller].success
        /\ result[Caller].error_message = T_cancelled
        /\ item[Caller].row_id # 0 =>
              wlog[Caller] = <<Call(item[Caller].row_id, ST_error)>>

\* C10: when upload_video_with_confirmation reads auto_upload_mode true, the
\* confirmation gate is not called and the upload (real or mock) is
\* attempted; when it reads false, an upload is attempted only after the
\* gate has answered yes for that call.
C10_PublishGating ==
    LET ev == plog[Caller]
    IN  (Returned0 /\ (Happened("mode_auto") \/ Happened("mode_confirm"))) =>
            IF ev[1] = "mode_auto"
            THEN ev \in {<<"mode_auto", "upload">>, <<"mode_auto", "mock_upload">>}
            ELSE ev \in {<<"mode_confirm", "gate_no">>,
                         <<"mode_confirm", "gate_yes", "upload">>,
                         <<"mode_confirm", "gate_yes", "mock_upload">>}

\* C10 happens: a run has published in auto mode, without the gate
C10_Witness ==
    /\ Returned0
    /\ auto_upload_mode
    /\ plog[Caller] = <<"mode_auto", "upload">>


(***************************************************************************)
(* The per-item specification: _process_single_item applied by one worker  *)
(* to the items of a list handed to the loop of lines 979-983.  The items  *)
(* are drawn directly, so that an item whose address is missing or blank   *)
(* reaches the function (item.get('address', '') at line 991), and the     *)
(* result handling of lines 1017-1030 may raise.                           *)
(***************************************************************************)
T_item_failed == <<"[cheori silpae]", ":", " ", "e">>

\* a variant of the handler that does not record the item
ItemFaultNoRecord(t) ==
    /\ t \in Workers
    /\ pc[t] = "p_ret"
    /\ \E wf \in WriteFailures(conn, sheet, T_item_failed) :
        sheet' = update_status(conn, sheet, item[t].row_id, ST_error, T_item_failed, wf)
    /\ wlog' = [wlog EXCEPT ![t] = Append(@, Call(item[t].row_id, ST_error))]
    /\ result' = [result EXCEPT ![t] = NoResult]
    /\ plog' = [plog EXCEPT ![t] = <<>>]
    /\ pc' = [pc EXCEPT ![t] = "item"]
    /\ media' = [media EXCEPT ![t] = NoMedia]
    /\ UNCHANGED <<flaky, progress_tracker, slept, u_out, p_out, pipe, progress_callback, c_out, sheet_url, s_out,
                   conn, q_out, is_running, SHUTDOWN_FLAG, nthreads, pending_items,
                   new_items, item, auto_upload_mode, runs, cycle, processed_items>>

\* lines 1041-1052: a statement of lines 1017-1030 raises after the pipeline
\* returned; the handler records the item, tries to write the error status
\* and the function returns to the loop over the new items
ItemFault(t) ==
    /\ t \in Workers
    /\ pc[t] = "p_ret"
    /\ processed_items' = processed_items \cup {ItemKey(item[t])}
    /\ \E wf \in WriteFailures(conn, sheet, T_item_failed) :
        sheet' = update_status(conn, sheet, item[t].row_id, ST_error, T_item_failed, wf)
    /\ wlog' = [wlog EXCEPT ![t] = Append(@, Call(item[t].row_id, ST_error))]
    /\ result' = [result EXCEPT ![t] = NoResult]
    /\ plog' = [plog EXCEPT ![t] = <<>>]
    /\ pc' = [pc EXCEPT ![t] = "item"]
    /\ media' = [media EXCEPT ![t] = NoMedia]
    /\ UNCHANGED <<flaky, progress_tracker, slept, u_out, p_out, pipe, progress_callback, c_out, sheet_url, s_out,
                   conn, q_out, is_running, SHUTDOWN_FLAG, nthreads, pending_items,
                   new_items, item, auto_upload_mode, runs, cycle>>

V_space == <<" ">>
ItemInputs ==
    { [row_id |-> 2, address |-> A_addr], [row_id |-> 3, address |-> B_addr],
      [row_id |-> 3, address |-> V_space], [row_id |-> 3, address |-> EmptyStr] }
ItemLists ==
    { <<a>> : a \in ItemInputs }
    \cup { l \in { <<a, b>> : a \in ItemInputs, b \in ItemInputs } : l[1] # l[2] }

InitItem ==
    /\ sheet \in PipeSheets
    /\ flaky \in BOOLEAN
    /\ \E ce \in ConnectEnvs(NewConn) :
        conn = setup_sheets_connection(NewConn, sheet, ce.gspread, ce.works)
    /\ q_out = NoQueueCall
    /\ is_running = TRUE
    /\ SHUTDOWN_FLAG = FALSE
    /\ processed_items = {}
    /\ nthreads = 1
    /\ pc = [t \in Threads |-> IF t = Caller THEN "idle"
                                ELSE IF t = 1 THEN "item" ELSE "unborn"]
    /\ pending_items = [t \in Workers |-> <<>>]
    /\ new_items \in { [t \in Workers |-> IF t = 1 THEN l ELSE <<>>] : l \in ItemLists }
    /\ item = [t \in Threads |-> NoItem]
    /\ result = [t \in Threads |-> NoResult]
    /\ auto_upload_mode = FALSE
    /\ runs = <<>>
    /\ wlog = [t \in Threads |-> <<>>]
    /\ plog = [t \in Threads |-> <<>>]
    /\ cycle = [t \in Workers |-> NoCycle]
    /\ progress_tracker = NoTracker
    /\ slept = [t \in Workers |-> 0]
    /\ u_out = NoUpdate
    /\ sheet_url = T_default_url
    /\ s_out = NoStartCall
    /\ media = [t \in Threads |-> NoMedia]
    /\ p_out = NewTracker
    /\ pipe = [t \in Threads |-> NoRun]
    /\ progress_callback = "none"
    /\ c_out = NoNegotiation

NextItem ==
    \/ StopMonitoring
    \/ Shutdown
    \/ \E t \in Workers :
        \/ ItemNext(t)
        \/ ProcessItem(t)
        \/ PipeBegin(t)
        \/ PipeStages(t)
        \/ PipePublish(t)
        \/ FinalStatus(t)
        \/ ItemFault(t)
        \/ Record(t)
        \/ Cooldown(t)

SpecItem == InitItem /\ [][NextItem]_vars

\* the worker leaves _process_single_item: from the address test, from the
\* handler, or after the pause that follows the recording
LeavesItem(t) ==
    /\ pc[t] \in {"proc", "p_ret", "cooldown"}
    /\ pc'[t] = "item"

C12_BlankSkipped ==
    [][\A t \in Workers :
        (pc[t] = "proc" /\ Strip(item[t].address) = EmptyStr /\ pc'[t] # "proc")
        => /\ pc'[t] = "item"
           /\ runs' = runs
           /\ sheet' = sheet
           /\ wlog' = wlog
           /\ ItemKey(item[t]) \in processed_items']_vars

\* a blank item has been handled next to an item that was processed
C12_Witness ==
    \E t \in Workers :
        /\ pc[t] = "item"
        /\ item[t] # NoItem
        /\ Strip(item[t].address) = EmptyStr
        /\ ItemKey(item[t]) \in processed_items
        /\ runs # <<>>


(***************************************************************************)
(* The loop specification: the one worker the constructor starts, from     *)
(* construction, with the interval sleep of lines 935-938 taken one        *)
(* increment at a time.  stop_monitoring returns two seconds after it      *)
(* cleared the flag (line 923), later than the one-second increment a      *)
(* sleeping worker is in, so the console does not start monitoring again   *)
(* while the worker of this specification sleeps: start_monitoring is not  *)
(* among the steps.                                                        *)
(***************************************************************************)
Cancelled == ~is_running \/ SHUTDOWN_FLAG

\* line 935: the for loop over range(check_interval) begins
SleepBegin(t) ==
    /\ pc[t] = "sleep"
    /\ pc' = [pc EXCEPT ![t] = "sleep_check"]
    /\ slept' = [slept EXCEPT ![t] = 0]
    /\ UNCHANGED <<flaky, progress_tracker, u_out, p_out, pipe, progress_callback, c_out, sheet_url, s_out, media,
                   sheet, conn, q_out, is_running, SHUTDOWN_FLAG, processed_items,
                   nthreads, pending_items, new_items, item, result, auto_upload_mode,
                   runs, wlog, plog, cycle>>

\* a variant that sleeps the whole interval without looking at the flags
SleepCheckNoFlags(t) ==
    /\ pc[t] = "sleep_check"
    /\ pc' = [pc EXCEPT ![t] = IF slept[t] >= check_interval THEN "loop" ELSE "nap"]
    /\ UNCHANGED <<flaky, progress_tracker, slept, u_out, p_out, pipe, progress_callback, c_out, sheet_url, s_out, media,
                   sheet, conn, q_out, is_running, SHUTDOWN_FLAG, processed_items,
                   nthreads, pending_items, new_items, item, result, auto_upload_mode,
                   runs, wlog, plog, cycle>>

\* lines 935-937: the range is exhausted or a flag breaks the for loop;
\* otherwise one more increment is slept
SleepCheck(t) ==
    /\ pc[t] = "sleep_check"
    /\ pc' = [pc EXCEPT ![t] =
                IF slept[t] >= check_interval \/ ~is_running \/ SHUTDOWN_FLAG
                THEN "loop" ELSE "nap"]
    /\ UNCHANGED <<flaky, progress_tracker, slept, u_out, p_out, pipe, progress_callback, c_out, sheet_url, s_out, media,
                   sheet, conn, q_out, is_running, SHUTDOWN_FLAG, processed_items,
                   nthreads, pending_items, new_items, item, result, auto_upload_mode,
                   runs, wlog, plog, cycle>>

\* line 938: time.sleep(1)
Nap(t) ==
    /\ pc[t] = "nap"
    /\ pc' = [pc EXCEPT ![t] = "sleep_check"]
    /\ slept' = [slept EXCEPT ![t] = @ + 1]
    /\ UNCHANGED <<flaky, progress_tracker, u_out, p_out, pipe, progress_callback, c_out, sheet_url, s_out, media,
                   sheet, conn, q_out, is_running, SHUTDOWN_FLAG, processed_items,
                   nthreads, pending_items, new_items, item, result, auto_upload_mode,
                   runs, wlog, plog, cycle>>

\* one step of worker t
WorkerStep(t) ==
    \/ LoopTest(t)
    \/ Poll(t)
    \/ Filter(t)
    \/ ItemNext(t)
    \/ ProcessItem(t)
    \/ PipeBegin(t)
    \/ PipeStages(t)
    \/ PipePublish(t)
    \/ FinalStatus(t)
    \/ ItemFault(t)
    \/ Record(t)
    \/ Cooldown(t)
    \/ SleepBegin(t)
    \/ SleepCheck(t)
    \/ Nap(t)

NextLoop ==
    \/ StopMonitoring
    \/ Shutdown
    \/ \E t \in Workers : WorkerStep(t)

SpecLoop == Init /\ [][NextLoop]_vars

\* the worker the constructor starts, the only one of this specification
FirstWorker == 1

\* the worker thread is scheduled and the backend calls return: when the
\* worker can take a step it takes one; the console and the signal are free
FairSpecLoop == SpecLoop /\ WF_vars(WorkerStep(FirstWorker))

\* C13: a worker leaves the loop only in a step that finds is_running false
\* or SHUTDOWN_FLAG true; no failure of the connection, the read, the
\* pipeline or the handling of an item takes it out of the loop
C13_ExitsOnlyOnFlag ==
    [][\A t \in Workers : (pc[t] # "exited" /\ pc'[t] = "exited") => Cancelled]_vars

\* a worker has left the loop after items were handled
C13_Witness ==
    \E t \in Workers : pc[t] = "exited" /\ processed_items # {} /\ Cancelled

\* C14: once a flag is down, a worker in the interval sleep finishes at most
\* the one-second increment it is in, starts no other increment, goes to the
\* loop test without polling and from there out of the loop - and it does
\* get out
C14_PromptCancel ==
    /\ [][\A t \in Workers : Cancelled =>
            /\ pc[t] = "sleep" => pc'[t] \in {"sleep", "sleep_check"}
            /\ pc[t] = "nap" => pc'[t] \in {"nap", "sleep_check"}
            /\ pc[t] = "sleep_check" => pc'[t] \in {"sleep_check", "loop"}
            /\ pc[t] = "loop" => pc'[t] \in {"loop", "exited"}]_vars
    /\ (Cancelled /\ pc[FirstWorker] \in {"sleep", "sleep_check", "nap"})
            ~> (pc[FirstWorker] = "exited")

\* a worker left the loop from the middle of an interval
C14_Witness ==
    \E t \in Workers :
        /\ pc[t] = "exited"
        /\ slept[t] > 0
        /\ slept[t] < check_interval

\* the keys of the items the sheets of the loop specification can hold
LoopKeys ==
    UNION { { ItemKey(FilterPending(sh.headers, sh.rows)[i]) :
                i \in 1..Len(FilterPending(sh.headers, sh.rows)) } : sh \in MonitorSheets }

\* the poll of some worker has just returned an item with key k
ReturnedByPoll(k) ==
    \E t \in Workers :
        /\ pc[t] = "filter"
        /\ \E i \in 1..Len(pending_items[t]) :
            /\ ItemKey(pending_items[t][i]) = k
            /\ Strip(pending_items[t][i].address) # EmptyStr

\* some worker is done with the item of key k: its pipeline run was made and
\* has returned, the last update_status call for it carried a final status,
\* and the key is recorded
Finished(k) ==
    \E t \in Workers :
        /\ item[t] # NoItem
        /\ ItemKey(item[t]) = k
        /\ pc[t] \in {"cooldown", "item"}
        /\ k \in DOMAIN runs
        /\ result[t] = NoResult
        /\ wlog[t] # <<>>
        /\ wlog[t][Len(wlog[t])] \in
            {Call(item[t].row_id, ST_done), Call(item[t].row_id, ST_error)}
        /\ k \in processed_items

\* C15: under fair scheduling, an item with an address that a poll returned and
\* that is not yet recorded is eventually finished - pipeline run returned,
\* final status call made, key in processed_items - unless monitoring is
\* stopped or the process shut down first
C15_EventuallyProcessed ==
    \A k \in LoopKeys :
        (ReturnedByPoll(k) /\ k \notin processed_items) ~> (Finished(k) \/ Cancelled)

\* an item has been finished while monitoring is running
C15_Witness ==
    \E k \in LoopKeys : Finished(k) /\ ~Cancelled


(***************************************************************************)
(* The queue specification with failing rows: one get_property_queue call  *)
(* in which the processing of any of the rows read may raise.              *)
(***************************************************************************)
\* one get_property_queue call (lines 1453-1547); the rows in bad raise while
\* they are processed.  Every statement of the function is inside the outer
\* try block, whose handler returns a list: no exception leaves the call
QGetFaulty ==
    /\ \E ce \in QueueConnectEnvs(conn) :
        LET c2 == ConnAfterGet(conn, sheet, ce.gspread, ce.works)
        IN  \E readOk \in ReadEnvs(c2) :
              LET recs == RecordsRead(c2, sheet, readOk)
              IN  \E bad \in SUBSET (0..(Len(recs.rows) - 1)) :
                    /\ conn' = c2
                    /\ q_out' = [called |-> TRUE,
                                 records |-> recs,
                                 pending |-> FilterPendingSkipping(recs.headers, recs.rows,
                                                                   0, bad),
                                 bad |-> bad, raised |-> FALSE]
    /\ UNCHANGED <<sheet, flaky, progress_tracker, slept, u_out, p_out, pipe, progress_callback, c_out, sheet_url, s_out, media,
                   is_running, SHUTDOWN_FLAG, processed_items, nthreads, pc,
                   pending_items, new_items, item, result, auto_upload_mode, runs,
                   wlog, plog, cycle>>

NextQueueFaults == QGetFaulty

SpecQueueFaults == InitQueue /\ [][NextQueueFaults]_vars

\* C16: when no connection method works or the spreadsheet library is
\* missing, the call leaves the data source "mock" and returns the two
\* built-in samples
C16_MockModeSamples ==
    (q_out.called /\ conn.data_source = "mock") => q_out.pending = MockData

\* the items a list may hold
QueueItems == [row_id : Nat, address : Seq(STRING)]

\* C17: a get_property_queue call raises nothing and returns a list of
\* items, whatever the connection, the read and the rows do; every row that
\* did not fail, is pending and has an address is in the list, also next to
\* rows that failed
C17_AlwaysAList ==
    q_out.called =>
        /\ ~q_out.raised
        /\ q_out.pending \in Seq(QueueItems)
        /\ \A idx \in 0..(Len(q_out.records.rows) - 1) :
            LET row == q_out.records.rows[idx + 1]
                address == RowAddress(q_out.records.headers, row)
            IN  (idx \notin q_out.bad /\ address # EmptyStr
                    /\ IsPending(RowStatus(q_out.records.headers, row)))
                => \E i \in 1..Len(q_out.pending) :
                        q_out.pending[i] = [row_id |-> idx + 2, address |-> address]

\* a call in which the first row failed and the second row was returned
C17_Witness ==
    /\ q_out.called
    /\ 0 \in q_out.bad
    /\ \E i \in 1..Len(q_out.pending) : q_out.pending[i].row_id = 3


(***************************************************************************)
(* The status specification: update_status called on a manager in any of   *)
(* the states a connection attempt leaves, on sheets with and without a    *)
(* status column, on a backend that may reject cell writes.                *)
(***************************************************************************)
StatusSheets ==
    PipeSheets \cup {[headers |-> H_addr_only, rows |-> <<<<A_addr>>, <<B_addr>>>>]}

\* one update_status call (lines 1572-1626)
UCall(row_id, status, video_url) ==
    \E fail \in WriteFailures(conn, sheet, video_url) :
        /\ sheet' = update_status(conn, sheet, row_id, status, video_url, fail)
        /\ u_out' = [called |-> TRUE,
                     raised |-> update_status_raises(conn, sheet, fail),
                     branch |-> UpdateBranch(conn, sheet, fail),
                     noop |-> (sheet' = sheet)]
        /\ UNCHANGED <<flaky, progress_tracker, slept, p_out, pipe, progress_callback, c_out, sheet_url, s_out, media,
                       conn, q_out, is_running, SHUTDOWN_FLAG, processed_items, nthreads,
                       pc, pending_items, new_items, item, result, auto_upload_mode,
                       runs, wlog, plog, cycle>>

InitStatus ==
    /\ sheet \in StatusSheets
    /\ flaky \in BOOLEAN
    /\ \E ce \in QueueConnectEnvs(NewConn) :
        conn = setup_sheets_connection(NewConn, sheet, ce.gspread, ce.works)
    /\ q_out = NoQueueCall
    /\ is_running = FALSE
    /\ SHUTDOWN_FLAG = FALSE
    /\ processed_items = {}
    /\ nthreads = 0
    /\ pc = [t \in Threads |-> IF t = Caller THEN "idle" ELSE "unborn"]
    /\ pending_items = [t \in Workers |-> <<>>]
    /\ new_items = [t \in Workers |-> <<>>]
    /\ item = [t \in Threads |-> NoItem]
    /\ result = [t \in Threads |-> NoResult]
    /\ auto_upload_mode = FALSE
    /\ runs = <<>>
    /\ wlog = [t \in Threads |-> <<>>]
    /\ plog = [t \in Threads |-> <<>>]
    /\ cycle = [t \in Workers |-> NoCycle]
    /\ progress_tracker = NoTracker
    /\ slept = [t \in Workers |-> 0]
    /\ u_out = NoUpdate
    /\ sheet_url = T_default_url
    /\ s_out = NoStartCall
    /\ media = [t \in Threads |-> NoMedia]
    /\ p_out = NewTracker
    /\ pipe = [t \in Threads |-> NoRun]
    /\ progress_callback = "none"
    /\ c_out = NoNegotiation

NextStatus ==
    \E row_id \in 2..3, status \in {ST_processing, ST_done, ST_error},
       video_url \in {EmptyStr, T_url} :
        UCall(row_id, status, video_url)

SpecStatus == InitStatus /\ [][NextStatus]_vars

\* C18: no exception leaves an update_status call - not connected, read-only
\* source, no matching column or failing cell write - and a call that finds
\* the queue not connected or read-only changes nothing
C18_NeverRaises ==
    u_out.called =>
        /\ ~u_out.raised
        /\ u_out.branch \in {"not_connected", "read_only"} => u_out.noop

\* a call whose cell write was rejected has returned
C18_Witness == u_out.called /\ u_out.branch = "write_failed"


(***************************************************************************)
(* Overlap of pipeline runs, checked on the monitoring specification.      *)
(***************************************************************************)
\* the threads inside run_full_automation_with_notice: called, not yet returned
ActiveRuns == {t \in Threads : pc[t] \in {"p_stages", "p_publish"}}

\* C19: at most one worker is inside a monitoring-triggered pipeline run at
\* any time
C19_RunsNeverOverlap == Cardinality(ActiveRuns \cap Workers) <= 1


(***************************************************************************)
(* The tracker specification: the automation object from the moment its    *)
(* constructor has started the monitoring worker (line 2408), with the     *)
(* console's manual runs (option 4, lines 3164-3178) on the caller's       *)
(* thread next to the worker.                                              *)
(***************************************************************************)
\* line 2410: the constructor assigns the attribute after the worker exists
CtorAssign ==
    /\ pc[Caller] = "ctor"
    /\ progress_tracker' = NoTracker
    /\ pc' = [pc EXCEPT ![Caller] = "idle"]
    /\ UNCHANGED <<flaky, slept, u_out, p_out, pipe, progress_callback, c_out, sheet_url, s_out, media,
                   sheet, conn, q_out, is_running, SHUTDOWN_FLAG, processed_items,
                   nthreads, pending_items, new_items, item, result, auto_upload_mode,
                   runs, wlog, plog, cycle>>

InitTracker ==
    /\ sheet \in MonitorSheets
    /\ flaky = FALSE
    /\ conn = NewConn
    /\ q_out = NoQueueCall
    /\ is_running = TRUE
    /\ SHUTDOWN_FLAG = FALSE
    /\ processed_items = {}
    /\ nthreads = 1
    /\ pc = [t \in Threads |-> IF t = Caller THEN "ctor" ELSE IF t = 1 THEN "loop" ELSE "unborn"]
    /\ pending_items = [t \in Workers |-> <<>>]
    /\ new_items = [t \in Workers |-> <<>>]
    /\ item = [t \in Threads |-> NoItem]
    /\ result = [t \in Threads |-> NoResult]
    /\ auto_upload_mode = FALSE
    /\ runs = <<>>
    /\ wlog = [t \in Threads |-> <<>>]
    /\ plog = [t \in Threads |-> <<>>]
    /\ cycle = [t \in Workers |-> NoCycle]
    /\ progress_tracker = NoTracker
    /\ slept = [t \in Workers |-> 0]
    /\ u_out = NoUpdate
    /\ sheet_url = T_default_url
    /\ s_out = NoStartCall
    /\ media = [t \in Threads |-> NoMedia]
    /\ p_out = NewTracker
    /\ pipe = [t \in Threads |-> NoRun]
    /\ progress_callback = "none"
    /\ c_out = NoNegotiation

NextTracker ==
    \/ CtorAssign
    \/ ManualRun(B_addr, 0)
    \/ PipeBegin(Caller)
    \/ PipeStages(Caller)
    \/ PipePublish(Caller)
    \/ ManualReturn
    \/ \E t \in Workers :
        \/ LoopTest(t)
        \/ Poll(t)
        \/ Filter(t)
        \/ ItemNext(t)
        \/ ProcessItem(t)
        \/ PipeBegin(t)
        \/ PipeStages(t)
        \/ PipePublish(t)
        \/ FinalStatus(t)
        \/ Record(t)
        \/ Cooldown(t)
        \/ SleepTick(t)

SpecTracker == InitTracker /\ [][NextTracker]_vars

\* C20: while a pipeline run is active the progress_tracker attribute holds
\* the tracker that run made: no other run and no constructor step has
\* assigned it since
C20_TrackerOwned ==
    \A t \in ActiveRuns : progress_tracker = ProgressTracker(t)

(***************************************************************************)
(* The order specification: the loop specification on sheets that hold     *)
(* several pending rows, so that one poll cycle has several new items.     *)
(***************************************************************************)
\* sheets with three and with two pending rows
OrderSheets ==
    {[headers |-> H_addr_status,
      rows |-> <<<<A_addr, V_empty>>, <<B_addr, K_pending>>, <<A_addr, K_new>>>>],
     [headers |-> H_addr_status,
      rows |-> <<<<B_addr, ST_done>>, <<A_addr, V_empty>>, <<B_addr, K_daegijung>>>>]}

InitOrder ==
    /\ sheet \in OrderSheets
    /\ flaky = FALSE
    /\ conn = NewConn
    /\ q_out = NoQueueCall
    /\ is_running = TRUE
    /\ SHUTDOWN_FLAG = FALSE
    /\ processed_items = {}
    /\ nthreads = 1
    /\ pc = [t \in Threads |-> IF t = Caller THEN "idle" ELSE IF t = 1 THEN "loop" ELSE "unborn"]
    /\ pending_items = [t \in Workers |-> <<>>]
    /\ new_items = [t \in Workers |-> <<>>]
    /\ item = [t \in Threads |-> NoItem]
    /\ result = [t \in Threads |-> NoResult]
    /\ auto_upload_mode = FALSE
    /\ runs = <<>>
    /\ wlog = [t \in Threads |-> <<>>]
    /\ plog = [t \in Threads |-> <<>>]
    /\ cycle = [t \in Workers |-> NoCycle]
    /\ progress_tracker = NoTracker
    /\ slept = [t \in Workers |-> 0]
    /\ u_out = NoUpdate
    /\ sheet_url = T_default_url
    /\ s_out = NoStartCall
    /\ media = [t \in Threads |-> NoMedia]
    /\ p_out = NewTracker
    /\ pipe = [t \in Threads |-> NoRun]
    /\ progress_callback = "none"
    /\ c_out = NoNegotiation

SpecOrder == InitOrder /\ [][NextLoop]_vars

\* the row numbers of a list of items rise strictly
AscendingRows(s) == \A i, j \in 1..Len(s) : i < j => s[i].row_id < s[j].row_id

\* the worker is between the filter loop and the end of its for loop
InForLoop(t) == pc[t] \in {"item", "proc", "call", "p_stages", "p_publish", "p_ret",
                           "record", "cooldown"}

\* the items of the poll's list that were new when the filter loop saw them:
\* the single worker records no key but those of the items it started
NewInCycle(t) ==
    LET mine == {ItemKey(cycle[t].started[i]) : i \in 1..Len(cycle[t].started)}
        WasNew(it) == FilterKey(it) \notin (processed_items \ mine)
    IN  SelectSeq(cycle[t].list, WasNew)

\* C21: get_property_queue returns the pending rows in ascending row order;
\* within a poll cycle the items started so far followed by the items still
\* to come are exactly the new items of the returned list, in its order; and
\* every item started before the one in hand is finished (recorded)
C21_InOrder ==
    \A t \in Workers :
        /\ AscendingRows(cycle[t].list)
        /\ InForLoop(t) => cycle[t].started \o new_items[t] = NewInCycle(t)
        /\ \A i \in 1..(Len(cycle[t].started) - 1) :
              ItemKey(cycle[t].started[i]) \in processed_items

\* a worker is on the third item of a cycle whose poll returned three
C21_Witness ==
    \E t \in Workers :
        /\ Len(cycle[t].list) = 3
        /\ Len(cycle[t].started) = 3
        /\ pc[t] = "call"

(***************************************************************************)
(* The manager specification: the operations of one AutoMonitoringManager  *)
(* - start_monitoring with any reference, stop_monitoring, get_status -    *)
(* next to the workers it created, from construction.                      *)
(***************************************************************************)
\* get_status (lines 1082-1091) reads the attributes and writes none
GetStatus ==
    /\ ~SHUTDOWN_FLAG
    /\ UNCHANGED vars

\* CompleteAutomationSystem.__init__ has returned: AutoMonitoringManager.__init__
\* (lines 887-896) has made the set empty and has called start_monitoring
InitManager ==
    /\ Init
    /\ Len(sheet.rows) = 1

NextManager ==
    \/ \E ref \in SheetUrls : StartCall(ref)
    \/ StopMonitoring
    \/ Shutdown
    \/ GetStatus
    \/ \E t \in Workers :
        \/ LoopTest(t)
        \/ Poll(t)
        \/ Filter(t)
        \/ ItemNext(t)
        \/ ProcessItem(t)
        \/ PipeBegin(t)
        \/ PipeStages(t)
        \/ PipePublish(t)
        \/ FinalStatus(t)
        \/ Record(t)
        \/ Cooldown(t)
        \/ SleepTick(t)

SpecManager == InitManager /\ [][NextManager]_vars

\* C22: a new manager starts with processed_items empty, and no step of the
\* manager or of its workers - poll, item processing, start, stop, status
\* query - removes a key from it
C22_GrowsMonotonically ==
    /\ processed_items = {}
    /\ [][processed_items \subseteq processed_items']_vars

\* a key recorded by the first worker is still there after monitoring was
\* stopped and started again
C22_Witness ==
    /\ processed_items # {}
    /\ s_out.called
    /\ monitoring_thread = 2
    /\ is_running

\* C25: a newly constructed automation object is stopped - is_running false
\* and no worker thread - and monitoring becomes running only in a step that
\* creates a worker, which only a start_monitoring call of the caller does
C25_StartsStopped ==
    /\ ~is_running /\ monitoring_thread = 0
    /\ [][(~is_running /\ is_running') => s_out' # s_out]_vars

\* C26: a start_monitoring(ref) call made while is_running is true raises
\* nothing, creates no thread and leaves is_running, monitoring_thread,
\* sheet_url and processed_items as they were
C26_StartWhileRunningIsNoOp ==
    [][(is_running /\ s_out' # s_out) =>
            /\ ~s_out'.raised
            /\ UNCHANGED <<is_running, nthreads, sheet_url, processed_items, pc>>
            /\ Manager' = Manager]_vars

\* a call was made with a reference other than the stored one while
\* monitoring was running with items processed, and the stored one stayed
C26_Witness ==
    /\ s_out.called
    /\ s_out.ref # sheet_url
    /\ is_running
    /\ processed_items # {}

(***************************************************************************)
(* What a poll returns after status writes, checked on the loop            *)
(* specification.                                                          *)
(***************************************************************************)
\* the statuses the program writes: in progress, done, error
WrittenStatuses == {ST_processing, ST_done, ST_error}

\* C23: with a connected writable queue, a row whose status cell holds a
\* status the program wrote (in progress, done or error) is not in the list a
\* get_property_queue call returns - looked at when the poll of a worker has
\* just returned, the sheet being as the call read it
C23_WrittenNotReturned ==
    \A t \in Workers :
        (pc[t] = "filter" /\ pending_items[t] = cycle[t].list /\ Writable(conn)) =>
            \A i \in 1..Len(pending_items[t]) :
                RowStatus(sheet.headers, sheet.rows[pending_items[t][i].row_id - 1])
                    \notin WrittenStatuses

(***************************************************************************)
(* The de-duplication specification: the loop specification on a sheet     *)
(* whose users change the address of a row between polls.                  *)
(***************************************************************************)
\* a user of the spreadsheet replaces the address cell of a data row; the
\* next get_all_records call (line 1463) reads the new text
EditAddress(i, address) ==
    /\ ~SHUTDOWN_FLAG
    /\ i \in 1..Len(sheet.rows)
    /\ sheet.rows[i][1] # address
    /\ sheet' = [sheet EXCEPT !.rows[i][1] = address]
    /\ UNCHANGED <<flaky, progress_tracker, slept, u_out, p_out, pipe, progress_callback, c_out, sheet_url, s_out, media,
                   conn, q_out, is_running, SHUTDOWN_FLAG, processed_items, nthreads,
                   pc, pending_items, new_items, item, result, auto_upload_mode,
                   runs, wlog, plog, cycle>>

NextDedup ==
    \/ NextLoop
    \/ \E i \in 1..MaxRows, address \in {A_addr, B_addr} : EditAddress(i, address)

SpecDedup == Init /\ [][NextDedup]_vars

\* pairs (row_id, address) with row numbers of one and two digits and with
\* addresses that hold digits and the separator of the key
T_2_A == <<"2", "_", "A">>
T__A == <<"_", "A">>
T_1 == <<"1">>
T_1_A == <<"1", "_", "A">>
PairSpace ==
    [row_id : {1, 2, 3, 11, 12, 21}, address : {A_addr, B_addr, T_2_A, T__A, T_1, T_1_A}]

\* the key of every pair, by the function that records (lines 991-995), and
\* whether the filter (line 967) builds the same key
PairKeys == [p \in PairSpace |-> ItemKey(p)]
KeysAgree == \A p \in PairSpace : FilterKey(p) = PairKeys[p]

\* distinct pairs have distinct keys
KeyInjective == \A p, q \in PairSpace : PairKeys[p] = PairKeys[q] => p = q

\* the pairs whose key is recorded in processed_items
Handled == {p \in PairSpace : PairKeys[p] \in processed_items}

\* C24: the key built from (row_id, address) is injective on pairs with a
\* stripped address, as the queue returns them; and the filter loop leaves a
\* pending item out of the new items exactly when a handled pair has both its
\* row_id and its address - a recorded key of the same row with another
\* address does not hide it
C24_CompositeKey ==
    [][/\ KeyInjective
       /\ KeysAgree
       /\ \A t \in Workers :
            (pc[t] = "filter" /\ pending_items[t] # <<>>
                /\ pending_items'[t] = Tail(pending_items[t])) =>
                LET it == Head(pending_items[t])
                IN  (new_items'[t] = new_items[t]) <=>
                        (\E p \in Handled :
                            p.row_id = it.row_id /\ p.address = it.address)]_vars

\* the same row was run with one address and, after an edit, with the other
C24_Witness ==
    /\ ItemKey([row_id |-> 2, address |-> A_addr]) \in DOMAIN runs
    /\ ItemKey([row_id |-> 2, address |-> B_addr]) \in DOMAIN runs
    /\ ItemKey([row_id |-> 2, address |-> B_addr]) \in processed_items

(***************************************************************************)
(* Failure isolation of the voice and video backends, checked on the       *)
(* pipeline specification.                                                 *)
(***************************************************************************)
\* the voice or the video backend of the caller's run raised or reported
\* failure
BackendFailed ==
    \/ media[Caller].voice.backend \in {"raises", "fails"}
    \/ media[Caller].video.backend \in {"raises", "fails"}

\* the caller's run has returned and no other stage of it raised
ReturnedNoStageRaised == Returned0 /\ media[Caller].aborted_by # "stage"

\* C27 as stated: when the voice or the video backend raises or reports
\* failure, the run is not aborted, goes on with a mock artifact in the place
\* of each failed one and returns success = true
C27_MockArtifact ==
    (ReturnedNoStageRaised /\ BackendFailed) =>
        /\ ~Happened("raised")
        /\ result[Caller].success
        /\ media[Caller].voice.backend # "ok" => media[Caller].voice.artifact = "mock"
        /\ media[Caller].video.backend # "ok" => media[Caller].video.artifact = "mock"

\* C27: when the voice or the video backend raises or reports failure, the
\* run is not aborted: it goes through the remaining stages and returns
\* success = true with the voice and video paths set; behind the path of a
\* failed backend is the fallback file when it could be written and no file
\* when writing it failed too
C27_FailureIsolated ==
    (ReturnedNoStageRaised /\ BackendFailed) =>
        /\ ~Happened("raised")
        /\ media[Caller].aborted_by = "none"
        /\ result[Caller].returned
        /\ result[Caller].success
        /\ result[Caller].artifacts["voice_file"] # EmptyStr
        /\ result[Caller].artifacts["video_file"] # EmptyStr
        /\ \A m \in {media[Caller].voice, media[Caller].video} :
              m.backend # "ok" => (m.artifact = IF m.ok THEN "mock" ELSE "none")
        /\ \A m \in {media[Caller].voice, media[Caller].video} :
              m.backend = "ok" => m.artifact = "real"

\* a run whose voice backend raised and whose encoder reported failure has
\* returned, the upload attempted
C27_Witness ==
    /\ Returned0
    /\ media[Caller].voice.backend = "raises"
    /\ media[Caller].video.backend = "fails"
    /\ media[Caller].voice.artifact = "mock"
    /\ result[Caller].success
    /\ Happened("upload")

\* C28: the youtube_url of a returned result is the reference a successful
\* publish returned, or empty - not an error or cancellation text and not
\* None - and a result with success = true and a non-empty youtube_url comes
\* from a run whose upload was attempted and succeeded
C28_ReferenceOrEmpty ==
    Returned0 =>
        /\ result[Caller].youtube_url \in {EmptyStr, T_url, T_mock_url}
        /\ (result[Caller].success /\ result[Caller].youtube_url # EmptyStr) =>
              (Happened("upload") \/ Happened("mock_upload"))

(***************************************************************************)
(* The progress specification: one ProgressTracker, on which update and    *)
(* substep are called with every stage and every sub_progress.             *)
(***************************************************************************)
Stages == 0..(total_steps - 1)
SubProgress == 0..100

TrackerUpdate(step, sub_progress) ==
    /\ p_out' = update(p_out, step, sub_progress)
    /\ UNCHANGED <<flaky, progress_tracker, slept, u_out, sheet_url, s_out, media,
                   pipe, progress_callback, c_out,
                   sheet, conn, q_out, is_running, SHUTDOWN_FLAG, processed_items,
                   nthreads, pc, pending_items, new_items, item, result,
                   auto_upload_mode, runs, wlog, plog, cycle>>

TrackerSubstep(sub_progress) ==
    /\ p_out' = substep(p_out, sub_progress)
    /\ UNCHANGED <<flaky, progress_tracker, slept, u_out, sheet_url, s_out, media,
                   pipe, progress_callback, c_out,
                   sheet, conn, q_out, is_running, SHUTDOWN_FLAG, processed_items,
                   nthreads, pc, pending_items, new_items, item, result,
                   auto_upload_mode, runs, wlog, plog, cycle>>

InitProgress ==
    /\ sheet = NoSheet
    /\ flaky = FALSE
    /\ conn = NewConn
    /\ q_out = NoQueueCall
    /\ is_running = FALSE
    /\ SHUTDOWN_FLAG = FALSE
    /\ processed_items = {}
    /\ nthreads = 1
    /\ pc = [t \in Threads |-> IF t = Caller THEN "idle"
                                ELSE IF t = 1 THEN "exited" ELSE "unborn"]
    /\ pending_items = [t \in Workers |-> <<>>]
    /\ new_items = [t \in Workers |-> <<>>]
    /\ item = [t \in Threads |-> NoItem]
    /\ result = [t \in Threads |-> NoResult]
    /\ auto_upload_mode = FALSE
    /\ runs = <<>>
    /\ wlog = [t \in Threads |-> <<>>]
    /\ plog = [t \in Threads |-> <<>>]
    /\ cycle = [t \in Workers |-> NoCycle]
    /\ progress_tracker = NoTracker
    /\ slept = [t \in Workers |-> 0]
    /\ u_out = NoUpdate
    /\ sheet_url = T_default_url
    /\ s_out = NoStartCall
    /\ media = [t \in Threads |-> NoMedia]
    /\ p_out = NewTracker
    /\ pipe = [t \in Threads |-> NoRun]
    /\ progress_callback = "none"
    /\ c_out = NoNegotiation

NextProgress ==
    \/ \E step \in Stages, sub_progress \in SubProgress : TrackerUpdate(step, sub_progress)
    \/ \E sub_progress \in SubProgress : TrackerSubstep(sub_progress)

SpecProgress == InitProgress /\ [][NextProgress]_vars

\* C29: the report update(9, message, 100), the last of a successful run,
\* hands percent 100 to the observer
C29_CompletionIs100 ==
    (p_out.called /\ p_out.step = 9 /\ p_out.sub_progress = 100) => p_out.percent = 100

\* C30: for every stage in 0..9 and every sub_progress in 0..100 the percent
\* update computes is floor(100 * (stage + sub_progress / 100) / 10)
C30_PercentFormula ==
    p_out.called =>
        p_out.percent = (100 * (p_out.step * 100 + p_out.sub_progress)) \div (10 * 100)

\* C31: progress is monotone across stages: a report of a later stage with
\* sub_progress 0 never shows less than any report of an earlier stage, and
\* within a stage the report at sub_progress 100 never shows less than the
\* report at sub_progress 0
C31_Monotone ==
    [][/\ (p_out.called /\ p_out'.step > p_out.step /\ p_out'.sub_progress = 0)
            => p_out.percent <= p_out'.percent
       /\ (p_out.called /\ p_out'.step = p_out.step
             /\ p_out.sub_progress = 0 /\ p_out'.sub_progress = 100)
            => p_out'.percent >= p_out.percent]_vars

\* a full stage has been reported, which adds to the stage's base percent
C31_Witness ==
    /\ p_out.called
    /\ p_out.step < total_steps - 1
    /\ p_out.sub_progress = 100
    /\ p_out.percent > percent(p_out.step, 0)

(***************************************************************************)
(* The report specification: run_full_automation_with_notice, one report   *)
(* call or one piece of work at a time, on the caller's thread and on a    *)
(* monitoring worker.  The two runs use the one progress_tracker attribute *)
(* of the automation object (here p_out) and the one progress_callback.    *)
(***************************************************************************)
Runners == {Caller, FirstWorker}

\* the scripts thread t may take in a stage: every one on the caller's
\* thread, one without an exception on the worker (a bound on the state space)
ScriptsOf(t, k) ==
    IF t = Caller THEN StageScripts(k, auto_upload_mode)
    ELSE {CHOOSE sc \in StageScripts(k, auto_upload_mode) :
            /\ \A i \in 1..Len(sc) : sc[i] # Raise
            /\ sc # <<Work(8)>>
            /\ \A o \in StageScripts(k, auto_upload_mode) :
                 (\A i \in 1..Len(o) : o[i] # Raise) /\ o # <<Work(8)>> => Len(sc) <= Len(o)}

OnlyReports ==
    UNCHANGED <<flaky, progress_tracker, slept, u_out, sheet_url, s_out, media,
                sheet, conn, q_out, is_running, SHUTDOWN_FLAG, processed_items,
                nthreads, pc, pending_items, new_items, item, result,
                auto_upload_mode, runs, wlog, plog, cycle, progress_callback, c_out>>

\* set_progress_callback (lines 2412-2414)
SetProgressCallback(callback) ==
    /\ progress_callback' = callback
    /\ UNCHANGED <<flaky, progress_tracker, slept, u_out, sheet_url, s_out, media,
                   sheet, conn, q_out, is_running, SHUTDOWN_FLAG, processed_items,
                   nthreads, pc, pending_items, new_items, item, result,
                   auto_upload_mode, runs, wlog, plog, cycle, p_out, pipe, c_out>>

\* lines 2497-2499: the run stores a new tracker in the attribute and reports
\* stage 0
RunBegin(t) ==
    /\ pipe[t].at = "idle"
    /\ LET tr == update(NewTracker, 0, 0)
       IN  /\ p_out' = tr
           /\ pipe' = [pipe EXCEPT ![t] =
                  Reported([NoRun EXCEPT !.at = "running", !.updates = <<0>>], tr, <<>>)]
    /\ OnlyReports

\* lines 2502-2536: the update call that opens the next stage
RunStage(t) ==
    /\ pipe[t].at = "running"
    /\ pipe[t].todo = <<>>
    /\ pipe[t].stage < total_steps - 1
    /\ LET k == pipe[t].stage + 1
           tr == update(p_out, k, 0)
       IN  /\ p_out' = tr
           /\ \E sc \in ScriptsOf(t, k) :
                pipe' = [pipe EXCEPT ![t] =
                    Reported([@ EXCEPT !.stage = k, !.updates = Append(@, k)], tr, sc)]
    /\ OnlyReports

\* a substep call of a backend, on whatever tracker the attribute holds
RunSubstep(t) ==
    /\ pipe[t].at = "running"
    /\ pipe[t].todo # <<>>
    /\ Head(pipe[t].todo).op = "substep"
    /\ LET tr == substep(p_out, Head(pipe[t].todo).n)
       IN  /\ p_out' = tr
           /\ pipe' = [pipe EXCEPT ![t] = Reported(@, tr, Tail(pipe[t].todo))]
    /\ OnlyReports

\* the work of a stage starts
RunWork(t) ==
    /\ pipe[t].at = "running"
    /\ pipe[t].todo # <<>>
    /\ Head(pipe[t].todo).op = "work"
    /\ pipe' = [pipe EXCEPT ![t].worked = @ \cup {Head(pipe[t].todo).n},
                            ![t].todo = Tail(@)]
    /\ UNCHANGED p_out
    /\ OnlyReports

\* the work of the stage raises: the handler (2555-2571) returns the failure
RunRaise(t) ==
    /\ pipe[t].at = "running"
    /\ pipe[t].todo # <<>>
    /\ Head(pipe[t].todo).op = "raise"
    /\ pipe' = [pipe EXCEPT ![t].at = "returned", ![t].todo = <<>>,
                            ![t].cause = "stage", ![t].success = FALSE]
    /\ UNCHANGED p_out
    /\ OnlyReports

\* line 2552: the completion report update(9, ..., 100)
RunFinal(t) ==
    /\ pipe[t].at = "running"
    /\ pipe[t].todo # <<>>
    /\ Head(pipe[t].todo).op = "update"
    /\ LET tr == update(p_out, total_steps - 1, Head(pipe[t].todo).n)
       IN  /\ p_out' = tr
           /\ pipe' = [pipe EXCEPT ![t] =
                  Reported([@ EXCEPT !.updates = Append(@, total_steps - 1)], tr,
                           Tail(pipe[t].todo))]
    /\ OnlyReports

\* line 2553: the result is returned
RunReturn(t) ==
    /\ pipe[t].at = "running"
    /\ pipe[t].todo = <<>>
    /\ pipe[t].stage = total_steps - 1
    /\ pipe' = [pipe EXCEPT ![t].at = "returned", ![t].success = TRUE]
    /\ UNCHANGED p_out
    /\ OnlyReports

\* the caller has taken the result
RunEnd(t) ==
    /\ pipe[t].at = "returned"
    /\ pipe' = [pipe EXCEPT ![t] = NoRun]
    /\ UNCHANGED p_out
    /\ OnlyReports

InitReports == InitProgress

NextReports ==
    \/ \E callback \in Observers : SetProgressCallback(callback)
    \/ \E enabled \in BOOLEAN : SetAutoUploadMode(enabled)
    \/ \E t \in Runners :
        \/ RunBegin(t)
        \/ RunStage(t)
        \/ RunSubstep(t)
        \/ RunWork(t)
        \/ RunRaise(t)
        \/ RunFinal(t)
        \/ RunReturn(t)
        \/ RunEnd(t)

SpecReports == InitReports /\ [][NextReports]_vars

\* C32: an observer that raises aborts no run: with a raising observer every
\* report call of a run returns and the run goes on, no run is sent to the
\* handler by a report, and a run returns failure exactly when the work of
\* one of its stages raised, as with an observer that returns
C32_ObserverNeverAborts ==
    [][\A t \in Runners :
        /\ pipe'[t].cause # "observer"
        /\ (pipe'[t].at = "returned") => (pipe'[t].success <=> pipe'[t].cause = "none")
        /\ (progress_callback = "raises" /\ pipe[t].at = "running" /\ p_out' # p_out
              /\ pipe'[t] # pipe[t])
             => /\ pipe'[t].at = "running"
                /\ pipe'[t].last = p_out'.percent]_vars

\* a run that reported to a raising observer has returned success
C32_Witness ==
    /\ progress_callback = "raises"
    /\ pipe[Caller].at = "returned"
    /\ pipe[Caller].success
    /\ Len(pipe[Caller].updates) = total_steps + 1

\* the stage numbers 0, 1, ..., 9 and the completion report's 9
AllUpdates == [i \in 1..(total_steps + 1) |-> IF i <= total_steps THEN i - 1 ELSE total_steps - 1]

IsPrefix(s, full) == Len(s) <= Len(full) /\ \A i \in 1..Len(s) : s[i] = full[i]

\* C34: in every run the stage numbers passed to update are a prefix of
\* 0, 1, ..., 9, 9; the work of a stage starts only after the update call of
\* that stage; and once a stage has raised the run makes no further update
C34_StagesInOrder ==
    [][\A t \in Runners :
        /\ IsPrefix(pipe'[t].updates, AllUpdates)
        /\ \A k \in pipe'[t].worked : \E i \in 1..Len(pipe'[t].updates) : pipe'[t].updates[i] = k
        /\ (pipe[t].cause = "stage" /\ pipe'[t] # NoRun)
             => pipe'[t].updates = pipe[t].updates]_vars

\* C40: within one run the percent values its update and substep calls
\* deliver never decrease
C40_PercentNeverDecreases ==
    [][\A t \in Runners :
        (pipe[t].at = "running" /\ pipe'[t].at # "idle" /\ pipe[t].last >= 0)
            => pipe'[t].last >= pipe[t].last]_vars

(***************************************************************************)
(* The order of the events of one item, checked on the monitoring          *)
(* specification.                                                          *)
(***************************************************************************)
\* where a worker may be next, from each position of _process_single_item
\* (lines 1006-1039) and of the run it invokes
ItemOrder(from) ==
    CASE from = "proc" -> {"call", "item"}
      [] from = "call" -> {"p_stages"}
      [] from = "p_stages" -> {"p_publish", "p_ret"}
      [] from = "p_publish" -> {"p_ret"}
      [] from = "p_ret" -> {"record"}
      [] from = "record" -> {"cooldown"}
      [] from = "cooldown" -> {"item"}

ItemPositions == {"proc", "call", "p_stages", "p_publish", "p_ret", "record", "cooldown"}

\* C33: for every item a worker processes, the in-progress status is written,
\* then the pipeline is invoked, then the final status chosen from the
\* result (done exactly when it succeeded) is written, then the key is put
\* in processed_items, then comes the cool-down; and the key is not in
\* processed_items while the item's run is active
C33_ItemEventOrder ==
    [][\A t \in Workers :
        /\ (pc[t] \in ItemPositions /\ pc'[t] # pc[t]) => pc'[t] \in ItemOrder(pc[t])
        /\ (pc[t] = "proc" /\ pc'[t] = "call")
             => wlog'[t] = <<Call(item[t].row_id, ST_processing)>>
        /\ (pc[t] = "p_ret" /\ pc'[t] = "record")
             => wlog'[t][Len(wlog'[t])] =
                  Call(item[t].row_id, IF result[t].success THEN ST_done ELSE ST_error)
        /\ (pc[t] = "record" /\ pc'[t] = "cooldown")
             => ItemKey(item[t]) \in processed_items' \ processed_items
        /\ pc'[t] \in {"p_stages", "p_publish"}
             => ItemKey(item'[t]) \notin processed_items']_vars

(***************************************************************************)
(* The connection specification: get_property_queue calls of one           *)
(* FixedSheetsManager whose connection methods may succeed, fail or raise, *)
(* while the spreadsheet receives new rows.                                *)
(***************************************************************************)
\* the spreadsheets the specification starts from: empty, or one pending row
ConnectSheets ==
    {[headers |-> H_addr_status, rows |-> r] : r \in SeqsUpTo({<<V_B_padded, EmptyStr>>}, 1)}

\* the next value of a counter that stops at 2
UpTo2(n) == IF n >= 2 THEN 2 ELSE n + 1

\* one get_property_queue call (lines 1453-1475): c_out keeps what the call
\* negotiated, q_out the records it read and the list it returned
CGet ==
    /\ \E gspread \in BOOLEAN :
       \E outcome \in [{"service_account", "public_csv", "api_v4", "oauth"} -> MethodOutcomes] :
        LET n == negotiate(conn, sheet, gspread, outcome)
        IN  \E readOk \in ReadEnvs(n.conn) :
                /\ conn' = n.conn
                /\ q_out' = [called |-> TRUE,
                             records |-> RecordsRead(n.conn, sheet, readOk),
                             pending |-> get_property_queue(n.conn, sheet, readOk),
                             bad |-> {}, raised |-> FALSE]
                /\ c_out' = [calls |-> UpTo2(c_out.calls),
                             turn |-> 1 - c_out.turn,
                             setups |-> IF n.tried = <<>> THEN c_out.setups
                                        ELSE UpTo2(c_out.setups),
                             tried |-> n.tried,
                             gspread |-> IF n.tried = <<>> THEN TRUE ELSE gspread,
                             outcome |-> IF n.tried = <<>> THEN OutcomeOf({}) ELSE outcome,
                             readOk |-> readOk]
    /\ UNCHANGED <<sheet, flaky, progress_tracker, slept, u_out, p_out, pipe,
                   progress_callback, sheet_url, s_out, media,
                   is_running, SHUTDOWN_FLAG, processed_items, nthreads, pc,
                   pending_items, new_items, item, result, auto_upload_mode, runs,
                   wlog, plog, cycle>>

\* somebody adds a pending row to the spreadsheet
SheetAppend(address) ==
    /\ Len(sheet.rows) < MaxRows
    /\ sheet' = [sheet EXCEPT !.rows = Append(@, <<address, EmptyStr>>)]
    /\ UNCHANGED <<conn, q_out, c_out, flaky, progress_tracker, slept, u_out, p_out, pipe,
                   progress_callback, sheet_url, s_out, media,
                   is_running, SHUTDOWN_FLAG, processed_items, nthreads, pc,
                   pending_items, new_items, item, result, auto_upload_mode, runs,
                   wlog, plog, cycle>>

InitConnect == InitQueue /\ sheet \in ConnectSheets

NextConnect ==
    \/ CGet
    \/ \E address \in {V_B_padded} : SheetAppend(address)

SpecConnect == InitConnect /\ [][NextConnect]_vars

\* C35: a negotiation calls the connection methods in the order service
\* account, public CSV, API key, OAuth; every method before the last one
\* called failed or raised; it stops at the first method that returns True,
\* which becomes the data source; and when none does, all four were called
\* and the manager is in mock mode
C35_StrategyOrder ==
    [][(c_out'.turn # c_out.turn /\ c_out'.tried # <<>>) =>
        LET tr == Tail(c_out'.tried)
            ok(m) == MethodReturnsTrue(sheet, Working(c_out'.outcome), m)
        IN  /\ c_out'.tried[1] = "setup"
            /\ IsPrefix(tr, ConnectionMethods)
            /\ \A i \in 1..(Len(tr) - 1) : ~ok(tr[i])
            /\ c_out'.gspread =>
                \/ /\ tr # <<>>
                   /\ ok(tr[Len(tr)])
                   /\ conn'.data_source = tr[Len(tr)]
                   /\ conn'.is_connected
                \/ /\ tr = ConnectionMethods
                   /\ \A i \in 1..Len(tr) : ~ok(tr[i])
                   /\ conn'.data_source = "mock"
                   /\ ~conn'.is_connected]_vars

\* the service-account method raised, the public-CSV method returned False
\* and the API-key method won
C35_Witness ==
    /\ c_out.tried = <<"setup", "service_account", "public_csv", "api_v4">>
    /\ c_out.outcome["service_account"] = "raises"
    /\ c_out.outcome["public_csv"] = "false"
    /\ conn.data_source = "api_v4"
    /\ conn.is_connected

C39_PollReflectsQueue ==
    [][(/\ c_out'.turn # c_out.turn
        /\ conn'.data_source \in {"service_account", "public_csv", "api_v4", "oauth"}
        /\ c_out'.readOk)
            => q_out'.pending = FilterPending(sheet.headers, sheet.rows)]_vars

(***************************************************************************)
(* The loop with a failing poll step: a statement of lines 948-976 of      *)
(* _check_and_process_new_items raises before the for loop over the new    *)
(* items.  The try of lines 948-986 encloses the whole function, so its    *)
(* handler gets the exception; what _monitoring_loop calls inside its own  *)
(* try besides this function is time.sleep(1), and line 942 is therefore   *)
(* not among the positions of a worker.                                    *)
(***************************************************************************)
\* lines 985-986: the handler logs the exception and the function returns to
\* _monitoring_loop, which goes on to the interval sleep of lines 935-938
PollFault(t) ==
    /\ t \in Workers
    /\ pc[t] \in {"poll", "filter"}
    /\ pc' = [pc EXCEPT ![t] = "sleep"]
    /\ pending_items' = [pending_items EXCEPT ![t] = <<>>]
    /\ new_items' = [new_items EXCEPT ![t] = <<>>]
    /\ cycle' = CycleEnd(cycle, t, FALSE)
    /\ UNCHANGED <<flaky, progress_tracker, slept, u_out, p_out, pipe, progress_callback,
                   c_out, sheet_url, s_out, media,
                   sheet, conn, q_out, is_running, SHUTDOWN_FLAG, processed_items,
                   nthreads, item, result, auto_upload_mode, runs, wlog, plog>>

NextPollFaults ==
    \/ NextLoop
    \/ \E t \in Workers : PollFault(t)

SpecPollFaults == Init /\ [][NextPollFaults]_vars

\* the poll step of worker t ends without having completed: a cycle that
\* returns from the poll or from the filter loop is complete
PollFailed(t) ==
    /\ pc[t] \in {"poll", "filter"}
    /\ pc'[t] \notin {"poll", "filter", "item"}
    /\ cycle'[t].prev = <<>>

\* C37: when the poll step fails with an exception the worker goes to the
\* 30-second sleep of line 942, not to the interval sleep of lines 935-938,
\* and it stays in the loop
C37_PollFailureBacksOff ==
    [][\A t \in Workers : PollFailed(t) => pc'[t] = "backoff"]_vars

(***************************************************************************)
(* The loop in a process that ends.  signal_handler sets the flag, sleeps  *)
(* two seconds and calls sys.exit(0) (lines 3313-3320); the worker is a    *)
(* daemon thread (line 910) that nobody joins, so it ends with the process *)
(* wherever it is.  The sheets are those of the order specification.       *)
(***************************************************************************)
\* the threads the end of the process stops
Stopped(position) == position \notin {"unborn", "exited", "killed"}

\* lines 3316-3320: the process exits some time after the flag was set
ProcessExit ==
    /\ SHUTDOWN_FLAG
    /\ \E t \in Workers : Stopped(pc[t])
    /\ pc' = [t \in Threads |-> IF t \in Workers /\ Stopped(pc[t]) THEN "killed" ELSE pc[t]]
    /\ UNCHANGED <<flaky, progress_tracker, slept, u_out, p_out, pipe, progress_callback,
                   c_out, sheet_url, s_out, media,
                   sheet, conn, q_out, is_running, SHUTDOWN_FLAG, processed_items,
                   nthreads, pending_items, new_items, item, result, auto_upload_mode,
                   runs, wlog, plog, cycle>>

NextExit ==
    \/ NextLoop
    \/ ProcessExit

SpecExit == InitOrder /\ [][NextExit]_vars

\* the worker is handling an item that has an address
InItem(t) ==
    /\ pc[t] \in {"proc", "call", "p_stages", "p_publish", "p_ret", "record"}
    /\ Strip(item[t].address) # EmptyStr

\* C38: when monitoring is stopped or the shutdown flag is set while the
\* worker handles item k, the worker goes on with item k until a final status
\* call was made and the key of k is in processed_items; after item k it
\* starts no pipeline run and adds no key; and the items that were still to
\* come are not in processed_items when the for loop is left
C38_CancelBetweenItems ==
    [][Cancelled =>
        LET t == FirstWorker
        IN  /\ (InItem(t) /\ pc'[t] # pc[t])
                 => pc'[t] \in {"call", "p_stages", "p_publish", "p_ret", "record",
                                "cooldown", "item"}
            /\ (InItem(t) /\ pc'[t] \in {"cooldown", "item"})
                 => /\ ItemKey(item[t]) \in processed_items'
                    /\ \E i \in 1..Len(wlog'[t]) :
                         wlog'[t][i] \in {Call(item[t].row_id, ST_done),
                                          Call(item[t].row_id, ST_error)}
            /\ ~InItem(t) /\ pc[t] # "proc"
                 => runs' = runs /\ processed_items' = processed_items
            /\ (pc[t] = "item" /\ pc'[t] # "item")
                 => /\ pc'[t] # "proc"
                    /\ \A i \in 1..Len(new_items[t]) :
                         ItemKey(new_items[t][i]) \notin processed_items']_vars

================================================================
